---- MODULE Spec2Model ----
(***************************************************************************)
(* twm: directional focus switcher.  Model of the window/desktop registry  *)
(* (class Window, class Desktop), of the action dispatcher (invoke_action) *)
(* and of the poll loop (tick / main) of src/unnamed/part_005, lines 1-655,*)
(* against an abstract Win32 platform (src/src/platform.cpp).              *)
(*                                                                         *)
(* The program is written as operators on a state record `s`:              *)
(*   s.all    Desktop::all()      GUID -> Desktop                          *)
(*   s.cur    Desktop::current_id()   (NONE = empty optional)              *)
(*   s.win    the OS's top-level windows (what EnumWindows and the         *)
(*            per-window queries answer)                                   *)
(*   s.fg     GetForegroundWindow()                                        *)
(*   s.osCur  the virtual desktop the user is looking at                   *)
(*   s.now    steady_clock reading                                         *)
(* plus history fields (pre, calls, ef, adj, threw) that record what the   *)
(* last operation did; they are never read by the program operators.       *)
(*                                                                         *)
(* Coordinates: Rect::center() halves sums of coordinates.  The model      *)
(* keeps every length doubled (center2, dist2, Tol2), which is exact       *)
(* because all coordinates are small integers.                             *)
(***************************************************************************)
EXTENDS Integers, Sequences, FiniteSets, TLC

\* ------------------------------------------------------------------ bounds
\* largest reading of the monotonic clock.  The clock advances by one with
\* every OS-side change and every hotkey, so a run has at most MaxClock - 1
\* of them.
MaxClock == 3

\* ------------------------------------------------------------- value sets
Handles == 1..3
Guids == 1..2
\* nullptr HWND
NULL == 0
\* empty optional<GUID> / GUID{}
NONE == 0
\* clock::time_point{} (default member initialiser of m_last_interacted_time)
Epoch == 0

\* the terminating wchar_t of a buffer
NUL == "\\0"
Titles == {<<>>, <<"a", "b">>}

MkRect(l, t, r, b) == [l |-> l, t |-> t, r |-> r, b |-> b]
RectA == MkRect(0, 0, 100, 100)
RectB == MkRect(100, 0, 200, 100)
RectC == MkRect(0, 100, 100, 200)
RectPool == {RectA, RectB, RectC}

Directions == {"up", "down", "left", "right"}

Abs(x) == IF x < 0 THEN -x ELSE x
\* a variant of fmax that returns its second argument
SecondOf(x, y) == y
Max(x, y) == IF x > y THEN x ELSE y

\* ---------------------------------------------------------- math.h (Rect)
\* Rect::center(), doubled: (top_left + bottom_right) / 2
center2(r) == <<r.l + r.r, r.t + r.b>>
\* Rect::size(): bottom_right - top_left
size(r) == <<r.r - r.l, r.b - r.t>>

\* Rect::distance_with_axis_preference, doubled.  axis is 0 or 1 as in the
\* code; tuples are 1-based.
distance_with_axis_preference(r, axis, other) ==
  LET off_axis == (axis + 1) % 2
      c == center2(r)
      oc == center2(other)
  IN Abs(c[axis + 1] - oc[axis + 1])
       + Max(0, Abs(c[off_axis + 1] - oc[off_axis + 1]) - size(r)[off_axis + 1])

\* ------------------------------------------------------- platform queries
\* EnumWindows: the top-level windows, in ascending handle order
RECURSIVE SetToSeq(_)
SetToSeq(S) ==
  IF S = {} THEN <<>>
  ELSE LET m == CHOOSE x \in S : \A y \in S : x <= y
       IN <<m>> \o SetToSeq(S \ {m})

EnumWindows(s) == SetToSeq({h \in Handles : s.win[h].exists})

GetForegroundWindow(s) == s.fg

\* get_window_text (src/src/platform.cpp:107).  `name_length` is declared in
\* the if-condition and initialised with the whole condition
\* `GetWindowTextLengthW(handle) <= 0 || last_error_code() != 0`, so it is
\* 0 in the else branch: the buffer has name_length + 1 = 1 element,
\* GetWindowTextW copies size - 1 = 0 characters and terminates it.
\* The thread's last-error value is taken to be 0 (main resets it).
get_window_text(s, h) ==
  LET title == s.win[h].title
      cond == Len(title) <= 0
      name_length == IF cond THEN 1 ELSE 0
      size_ == name_length + 1
      copied == IF Len(title) < size_ - 1 THEN Len(title) ELSE size_ - 1
  IN IF cond THEN <<>>
     ELSE [i \in 1..size_ |-> IF i <= copied THEN title[i] ELSE NUL]

\* get_window_frame_bounds (the DWM query and its GetWindowRect fallback
\* are taken to succeed)
get_window_frame_bounds(s, h) == s.win[h].rect

IsIconic(s, h) == s.win[h].iconic
IsWindowVisible(s, h) == s.win[h].visible

\* get_window_desktop_id: empty when the desktop manager reports none
get_window_desktop_id(s, h) == s.win[h].desk

\* a variant that answers whether the window holds the focus instead: C7's
\* amended property tells the two apart
is_window_focused_instead(s, h) == s.fg = h

\* is_window_on_current_desktop
is_window_on_current_desktop(s, h) == s.win[h].desk = s.osCur

\* ------------------------------------------------------------ class Window
\* Window::Window(HWND)
Window(s, h) ==
  [name |-> get_window_text(s, h),
   rect |-> get_window_frame_bounds(s, h),
   time |-> Epoch,
   marked |-> FALSE]

\* a variant of Window::update that leaves the deletion mark set: the
\* second of two refreshes would then sweep what the first one found
update_keeping_mark(w, other) ==
  [w EXCEPT !.name = other.name, !.rect = other.rect]

\* Window::update(other): styling calls have no effect on the registry
update(w, other) ==
  [w EXCEPT !.name = other.name, !.rect = other.rect, !.marked = FALSE]

\* Window::mark_for_deletion
mark_for_deletion(w) == [w EXCEPT !.marked = TRUE]

\* a variant of Window::update_last_interacted_time that leaves the time
update_last_interacted_time_never(s, w) == w

\* Window::update_last_interacted_time
update_last_interacted_time(s, w) == [w EXCEPT !.time = s.now]

\* ----------------------------------------------------------- class Desktop
\* Desktop::Desktop(id): no windows, m_last_focus = nullptr
Desktop(g) == [windows |-> <<>>, last_focus |-> NULL]

\* a variant of Desktop::can_be_managed without the IsIconic test
can_be_managed_minimized_too(s, h, w) ==
  w.name # <<>> /\ IsWindowVisible(s, h)

\* Desktop::can_be_managed
can_be_managed(s, h, w) ==
  w.name # <<>> /\ ~IsIconic(s, h) /\ IsWindowVisible(s, h)

\* unordered_map::insert / operator[] on a function with a finite domain
Put(f, k, v) == [x \in (DOMAIN f) \cup {k} |-> IF x = k THEN v ELSE f[x]]
\* unordered_map::erase
Erase(f, k) == [x \in (DOMAIN f) \ {k} |-> f[x]]

\* a variant of Desktop::try_manage that does not update the focused
\* window's last_interacted_time
try_manage_without_interaction(s, g, h, is_focused) ==
  LET w == Window(s, h)
      d == s.all[g]
      inserted == h \notin DOMAIN d.windows
      w1 == IF inserted THEN w ELSE update(d.windows[h], w)
      d2 == [windows |-> Put(d.windows, h, w1),
             last_focus |-> IF is_focused THEN h ELSE d.last_focus]
  IN IF ~can_be_managed(s, h, w) THEN s
     ELSE [s EXCEPT !.all = Put(s.all, g, d2),
                    !.reads = IF inserted THEN @ ELSE @ \cup {h}]

\* Desktop::try_manage: the registry after the call (unchanged when the
\* window cannot be managed).  Window::update, which runs for a window the
\* desktop tracks already, looks the focused window up (Window::focused)
\* for the border colour: s.reads records the lookup.
try_manage(s, g, h, is_focused) ==
  LET w == Window(s, h)
      d == s.all[g]
      inserted == h \notin DOMAIN d.windows
      w1 == IF inserted THEN w ELSE update(d.windows[h], w)
      w2 == IF is_focused THEN update_last_interacted_time(s, w1) ELSE w1
      d2 == [windows |-> Put(d.windows, h, w2),
             last_focus |-> IF is_focused THEN h ELSE d.last_focus]
  IN IF ~can_be_managed(s, h, w) THEN s
     ELSE [s EXCEPT !.all = Put(s.all, g, d2),
                    !.reads = IF inserted THEN @ ELSE @ \cup {h}]

\* the bool Desktop::try_manage returns
try_manage_ok(s, h) == can_be_managed(s, h, Window(s, h))

\* Desktop::unmanage
unmanage(d, h) == [d EXCEPT !.windows = Erase(d.windows, h)]

\* a variant of Desktop::pre_update that marks nothing
pre_update_marking_nothing(d) == d

\* Desktop::pre_update
pre_update(d) ==
  [d EXCEPT !.windows = [h \in DOMAIN d.windows |-> mark_for_deletion(d.windows[h])]]

\* a variant of Desktop::post_update that erases no window
post_update_erasing_nothing(d) ==
  [windows |-> d.windows,
   last_focus |-> IF d.last_focus \in DOMAIN d.windows THEN d.last_focus ELSE NULL]

\* a variant of Desktop::post_update that leaves m_last_focus dangling
post_update_keeping_last_focus(d) ==
  LET keep == {h \in DOMAIN d.windows : ~d.windows[h].marked}
  IN [windows |-> [h \in keep |-> d.windows[h]], last_focus |-> d.last_focus]

\* Desktop::post_update
post_update(d) ==
  LET keep == {h \in DOMAIN d.windows : ~d.windows[h].marked}
      ws == [h \in keep |-> d.windows[h]]
  IN [windows |-> ws,
      last_focus |-> IF d.last_focus \in DOMAIN ws THEN d.last_focus ELSE NULL]

\* a variant of Desktop::empty that never reports an empty desktop
empty_never(d) == FALSE

\* Desktop::empty
empty(d) == DOMAIN d.windows = {}

\* the EnumWindows callback of Desktop::update_all, for one handle
EnumCallback(s, h, current_focus) ==
  LET desktop_id == get_window_desktop_id(s, h)
      s1 == IF desktop_id \in DOMAIN s.all THEN s
            ELSE [s EXCEPT !.all = Put(s.all, desktop_id, Desktop(desktop_id))]
      s2 == try_manage(s1, desktop_id, h, h = current_focus)
  IN IF desktop_id = NONE THEN s
     ELSE IF ~try_manage_ok(s1, h) THEN s2
     ELSE IF s2.cur = NONE /\ is_window_on_current_desktop(s2, h)
          THEN [s2 EXCEPT !.cur = desktop_id]
     ELSE s2

RECURSIVE EnumLoop(_, _, _)
EnumLoop(s, hs, current_focus) ==
  IF hs = <<>> THEN s
  ELSE EnumLoop(EnumCallback(s, Head(hs), current_focus), Tail(hs), current_focus)

\* a variant of the first loop that leaves current_id as it was
update_all_mark_keep_current(s) ==
  [s EXCEPT !.pre = s.all,
            !.all = [g \in DOMAIN s.all |-> pre_update(s.all[g])]]

\* Desktop::update_all, first loop: current_id is reset and every desktop
\* runs pre_update.  s.pre remembers the registry the refresh started from.
update_all_mark(s) ==
  [s EXCEPT !.cur = NONE,
            !.pre = s.all,
            !.all = [g \in DOMAIN s.all |-> pre_update(s.all[g])]]

\* Desktop::update_all, the enumeration
update_all_enumerate(s) == EnumLoop(s, EnumWindows(s), GetForegroundWindow(s))

\* a variant of the last loop that returns before the sweep
update_all_sweep_skipped(s) == s

\* Desktop::update_all, last loop and erase_if: every desktop runs
\* post_update and the empty ones are dropped
update_all_sweep(s) ==
  LET swept == [g \in DOMAIN s.all |-> post_update(s.all[g])]
  IN [s EXCEPT !.all = [g \in {x \in DOMAIN swept : ~empty(swept[x])} |-> swept[g]]]

\* Desktop::update_all
update_all(s) == update_all_sweep(update_all_enumerate(update_all_mark(s)))

\* ---------------------------------------------------- platform commands
\* A fallible platform call: its outcome is the next value of the outcome
\* sequence s.ok handed to the operation; the call is logged in s.calls and
\* its result left in s.ret.
PlatformCall(s, name, h) ==
  [s EXCEPT !.ok = Tail(s.ok),
            !.calls = Append(s.calls, <<name, h, Head(s.ok)>>),
            !.ret = Head(s.ok)]

\* a variant of focus_window whose successful call leaves the focus where
\* it was
focus_window_reporting_only(s, h) == PlatformCall(s, "focus_window", h)

\* focus_window: SetForegroundWindow.  Activating a window of another
\* virtual desktop takes the user to that desktop.
focus_window(s, h) ==
  LET s1 == PlatformCall(s, "focus_window", h)
  IN IF s1.ret
     THEN [s1 EXCEPT !.fg = h,
                     !.osCur = IF s.win[h].desk # NONE THEN s.win[h].desk ELSE s.osCur]
     ELSE s1

\* set_window_frame_bounds (the margin queries are taken to succeed)
set_window_frame_bounds(s, h, r) ==
  LET s1 == PlatformCall(s, "set_window_frame_bounds", h)
  IN IF s1.ret THEN [s1 EXCEPT !.win[h].rect = r] ELSE s1

\* move_window_to_desktop
move_window_to_desktop(s, h, g) ==
  LET s1 == PlatformCall(s, "move_window_to_desktop", h)
  IN IF s1.ret THEN [s1 EXCEPT !.win[h].desk = g] ELSE s1

\* close_window posts WM_CLOSE, terminate_process kills the owner: the
\* window disappears later, as an OS-side change
close_window(s, h) == PlatformCall(s, "close_window", h)
terminate_process(s, h) == PlatformCall(s, "terminate_process", h)

\* Hotkeys::send_to_system("ctrl-win-left|right"): the OS moves to the
\* neighbouring virtual desktop when there is one and gives the focus to
\* s.pick, NULL or a window of that desktop (SendInput is taken to succeed)
send_to_system(s, dir) ==
  LET target == IF dir = "left" THEN s.osCur - 1 ELSE s.osCur + 1
  IN IF target \in Guids
     THEN [s EXCEPT !.osCur = target,
                    !.fg = s.pick,
                    !.calls = Append(s.calls, <<"send_to_system", NULL, TRUE>>)]
     ELSE [s EXCEPT !.calls = Append(s.calls, <<"send_to_system", NULL, TRUE>>)]

\* the foreground windows the OS may choose after a desktop switch
PickSet(w, oc, dir) ==
  LET target == IF dir = "left" THEN oc - 1 ELSE oc + 1
  IN {NULL} \cup {h \in Handles : w[h].exists /\ w[h].desk = target}

\* ------------------------------------------------------ registry lookups
\* Desktop::get_window: the handle when tracked in desktop g, else nullptr
get_window(s, g, h) == IF h \in DOMAIN s.all[g].windows THEN h ELSE NULL

\* Desktop::get(HWND): the first desktop that tracks the handle
Desktop_get(s, h) ==
  LET ds == {g \in DOMAIN s.all : h \in DOMAIN s.all[g].windows}
  IN IF ds = {} THEN NONE ELSE CHOOSE g \in ds : \A g2 \in ds : g <= g2

\* Window::get(HWND) and Window::focused(): a Window* is its handle
Window_get(s, h) == IF Desktop_get(s, h) = NONE THEN NULL ELSE h
focused(s) == Window_get(s, GetForegroundWindow(s))

\* Desktop::current
current(s) == s.cur

\* m_windows.begin(): the first tracked handle in the map's iteration
\* order s.order
RECURSIVE FirstIn(_, _)
FirstIn(order, S) ==
  IF order = <<>> THEN NULL
  ELSE IF Head(order) \in S THEN Head(order)
  ELSE FirstIn(Tail(order), S)

\* Window::focus on window h of desktop g
focus(s, g, h) ==
  LET s1 == focus_window(s, h)
  IN IF ~s1.ret THEN s1
     ELSE [s1 EXCEPT !.all[g].windows[h].time = s1.now]

\* a variant of Window::set_rect that stores the bounds even when the
\* platform call failed
set_rect_unchecked(s, g, h, r) ==
  [set_window_frame_bounds(s, h, r) EXCEPT !.all[g].windows[h].rect = r]

\* Window::set_rect
set_rect(s, g, h, r) ==
  LET s1 == set_window_frame_bounds(s, h, r)
  IN IF ~s1.ret THEN s1
     ELSE [s1 EXCEPT !.all[g].windows[h].rect = r]

\* a variant of Desktop::last_focus_or_default that skips m_last_focus
last_focus_or_default_first_only(s, g) ==
  IF DOMAIN s.all[g].windows # {} THEN FirstIn(s.order, DOMAIN s.all[g].windows)
  ELSE NULL

\* Desktop::last_focus_or_default
last_focus_or_default(s, g) ==
  LET d == s.all[g]
  IN IF d.last_focus \in DOMAIN d.windows THEN d.last_focus
     ELSE IF DOMAIN d.windows # {} THEN FirstIn(s.order, DOMAIN d.windows)
     ELSE NULL

\* Desktop::ensure_focus.  s.ef records the call: desktop, foreground
\* window and m_last_focus at entry, the chosen window, and the number of
\* platform calls logged before it.
ensure_focus(s, g) ==
  LET w == last_focus_or_default(s, g)
      rec == [called |-> TRUE, g |-> g, fg |-> GetForegroundWindow(s),
              last_focus |-> s.all[g].last_focus,
              tracked |-> DOMAIN s.all[g].windows, w |-> w,
              ncalls |-> Len(s.calls)]
      s0 == [s EXCEPT !.ef = rec]
  IN IF GetForegroundWindow(s) \in DOMAIN s.all[g].windows
     THEN [s0 EXCEPT !.ret = FALSE, !.ef.w = NULL]
     ELSE IF w = NULL THEN [s0 EXCEPT !.ret = FALSE]
     ELSE focus(s0, g, w)

\* a variant of Desktop::move_window_to_here that does not take the window
\* out of its previous desktop
move_window_to_here_keep_previous(s, g, h) ==
  LET s1 == move_window_to_desktop(s, h, g)
      s3 == try_manage(s1, g, h, FALSE)
  IN IF ~s1.ret THEN s1
     ELSE [s3 EXCEPT !.ret = try_manage_ok(s1, h)]

\* Desktop::move_window_to_here
move_window_to_here(s, g, h) ==
  LET s1 == move_window_to_desktop(s, h, g)
      prev_desktop == Desktop_get(s1, h)
      s2 == IF prev_desktop = NONE THEN s1
            ELSE [s1 EXCEPT !.all[prev_desktop] = unmanage(s1.all[prev_desktop], h)]
      s3 == try_manage(s2, g, h, FALSE)
  IN IF ~s1.ret THEN s1
     ELSE [s3 EXCEPT !.ret = try_manage_ok(s2, h)]

\* --------------------------------------------------- adjacency resolver
\* float closeness_tolerance = 2 (Desktop::get_adjacent_window)
closeness_tolerance == 2

\* a variant of the scan step without the is_on_correct_side test
AdjacentStepAnySide(acc, d, h, oh, dir, axis) ==
  LET w == d.windows[h]
      ow == d.windows[oh]
      tol == 2 * closeness_tolerance
      dist == distance_with_axis_preference(w.rect, axis, ow.rect)
  IN IF h # oh /\ (acc.inf \/ dist < acc.best_distance - tol
                    \/ (Abs(dist - acc.best_distance) < tol
                        /\ ow.time > acc.most_recently_interacted))
     THEN [best_candidate |-> oh, inf |-> FALSE, best_distance |-> dist,
           most_recently_interacted |-> ow.time]
     ELSE acc

\* a variant of the scan step whose side test has the opposite sign
AdjacentStepMirrored(acc, d, h, oh, dir, axis) ==
  LET w == d.windows[h]
      ow == d.windows[oh]
      tol == 2 * closeness_tolerance
      dist == distance_with_axis_preference(w.rect, axis, ow.rect)
      in_axis_dist == center2(w.rect)[axis + 1] - center2(ow.rect)[axis + 1]
  IN IF h # oh
          /\ (Abs(in_axis_dist) > tol /\ (in_axis_dist < 0) = (dir = "up" \/ dir = "left"))
          /\ (acc.inf \/ dist < acc.best_distance - tol
              \/ (Abs(dist - acc.best_distance) < tol
                  /\ ow.time > acc.most_recently_interacted))
     THEN [best_candidate |-> oh, inf |-> FALSE, best_distance |-> dist,
           most_recently_interacted |-> ow.time]
     ELSE acc

\* a variant of the scan step whose side test has no tolerance band
AdjacentStepNoBand(acc, d, h, oh, dir, axis) ==
  LET w == d.windows[h]
      ow == d.windows[oh]
      tol == 2 * closeness_tolerance
      dist == distance_with_axis_preference(w.rect, axis, ow.rect)
      in_axis_dist == center2(w.rect)[axis + 1] - center2(ow.rect)[axis + 1]
  IN IF h # oh
          /\ ((in_axis_dist > 0) = (dir = "up" \/ dir = "left"))
          /\ (acc.inf \/ dist < acc.best_distance - tol
              \/ (Abs(dist - acc.best_distance) < tol
                  /\ ow.time > acc.most_recently_interacted))
     THEN [best_candidate |-> oh, inf |-> FALSE, best_distance |-> dist,
           most_recently_interacted |-> ow.time]
     ELSE acc

\* a variant of the scan step that never prefers the more recent window
AdjacentStepNoRecency(acc, d, h, oh, dir, axis) ==
  LET w == d.windows[h]
      ow == d.windows[oh]
      tol == 2 * closeness_tolerance
      dist == distance_with_axis_preference(w.rect, axis, ow.rect)
      in_axis_dist == center2(w.rect)[axis + 1] - center2(ow.rect)[axis + 1]
  IN IF h # oh
          /\ (Abs(in_axis_dist) > tol /\ (in_axis_dist > 0) = (dir = "up" \/ dir = "left"))
          /\ (acc.inf \/ dist < acc.best_distance - tol)
     THEN [best_candidate |-> oh, inf |-> FALSE, best_distance |-> dist,
           most_recently_interacted |-> ow.time]
     ELSE acc

\* one iteration of the scan of Desktop::get_adjacent_window over window
\* oh of desktop d, for source window h; acc holds best_candidate,
\* best_distance (inf: still infinity) and most_recently_interacted
AdjacentStep(acc, d, h, oh, dir, axis) ==
  LET w == d.windows[h]
      ow == d.windows[oh]
      tol == 2 * closeness_tolerance
      center == center2(w.rect)[axis + 1]
      dist == distance_with_axis_preference(w.rect, axis, ow.rect)
      in_axis_dist == center - center2(ow.rect)[axis + 1]
      is_on_correct_side ==
        /\ Abs(in_axis_dist) > tol
        /\ (in_axis_dist > 0) = (dir = "up" \/ dir = "left")
      is_among_closest_or_equally_close_and_more_recent ==
        \/ acc.inf
        \/ dist < acc.best_distance - tol
        \/ /\ Abs(dist - acc.best_distance) < tol
           /\ ow.time > acc.most_recently_interacted
  IN IF h # oh /\ is_on_correct_side
          /\ is_among_closest_or_equally_close_and_more_recent
     THEN [best_candidate |-> oh, inf |-> FALSE, best_distance |-> dist,
           most_recently_interacted |-> ow.time]
     ELSE acc

RECURSIVE AdjacentScan(_, _, _, _, _, _)
AdjacentScan(acc, d, h, order, dir, axis) ==
  IF order = <<>> THEN acc
  ELSE IF Head(order) \notin DOMAIN d.windows
       THEN AdjacentScan(acc, d, h, Tail(order), dir, axis)
  ELSE AdjacentScan(AdjacentStep(acc, d, h, Head(order), dir, axis),
                    d, h, Tail(order), dir, axis)

\* Desktop::get_adjacent_window on desktop record d, scanning m_windows in
\* the iteration order `order`; NULL is nullptr
get_adjacent_window(d, h, dir, order) ==
  LET axis == IF dir = "left" \/ dir = "right" THEN 0 ELSE 1
      init == [best_candidate |-> NULL, inf |-> TRUE, best_distance |-> 0,
               most_recently_interacted |-> Epoch]
  IN IF h \notin DOMAIN d.windows THEN NULL
     ELSE AdjacentScan(init, d, h, order, dir, axis).best_candidate

\* Window::get_adjacent.  s.adj records the query and its answer.
get_adjacent(s, h, dir) ==
  LET g == Desktop_get(s, h)
      res == IF g = NONE THEN NULL
             ELSE get_adjacent_window(s.all[g], h, dir, s.order)
  IN [s EXCEPT !.adj = [called |-> TRUE, g |-> g, h |-> h, dir |-> dir, res |-> res]]

\* ------------------------------------------------------- window actions
\* Window::focus_adjacent
Window_focus_adjacent(s, dir) ==
  LET f == focused(s)
      s1 == get_adjacent(s, f, dir)
  IN IF f = NULL THEN [s EXCEPT !.ret = FALSE]
     ELSE IF s1.adj.res = NULL THEN [s1 EXCEPT !.ret = FALSE]
     ELSE focus(s1, s1.adj.g, s1.adj.res)

\* a variant of Window::focus_adjacent_or_default without the fallback to
\* Desktop::ensure_focus
focus_adjacent_only(s, dir) == Window_focus_adjacent(s, dir)

\* Window::focus_adjacent_or_default
focus_adjacent_or_default(s, dir) ==
  LET s1 == Window_focus_adjacent(s, dir)
  IN IF s1.ret THEN s1
     ELSE IF current(s1) # NONE THEN ensure_focus(s1, current(s1))
     ELSE [s1 EXCEPT !.ret = FALSE]

\* Window::swap_adjacent
swap_adjacent(s, dir) ==
  LET f == focused(s)
      s1 == get_adjacent(s, f, dir)
      g == s1.adj.g
      a == s1.adj.res
      s2 == [s1 EXCEPT !.all[g].windows[a] = update_last_interacted_time(s1, @),
                       !.all[g].windows[f] = update_last_interacted_time(s1, @)]
      tmp == s2.all[g].windows[f].rect
      s3 == set_rect(s2, g, f, s2.all[g].windows[a].rect)
      s4 == set_rect(s3, g, a, tmp)
  IN IF f = NULL THEN [s EXCEPT !.ret = FALSE]
     ELSE IF a = NULL THEN [s1 EXCEPT !.ret = FALSE]
     ELSE [s4 EXCEPT !.ret = s3.ret /\ s4.ret]

\* a variant of Desktop::focus_adjacent that refreshes before it sends
\* the key combination
Desktop_focus_adjacent_refresh_first(s, dir) ==
  IF dir # "left" /\ dir # "right"
  THEN [s EXCEPT !.threw = TRUE]
  ELSE send_to_system(update_all(s), dir)

\* Desktop::focus_adjacent: throws for up and down; otherwise sends the
\* desktop-switch key combination and re-runs a full update
Desktop_focus_adjacent(s, dir) ==
  IF dir # "left" /\ dir # "right"
  THEN [s EXCEPT !.threw = TRUE]
  ELSE update_all(send_to_system(s, dir))

\* Window::move_to_adjacent_desktop, its last statement: focus the moved
\* window f when move_window_to_here (which left s) succeeded
move_then_focus(s, desktop, f) ==
  IF ~s.ret THEN s ELSE focus(s, desktop, f)

\* Window::move_to_adjacent_desktop after Desktop::focus_adjacent (which
\* left s): move window f to the desktop that is now current
move_after_switch(s, f) ==
  IF s.threw THEN s
  ELSE IF current(s) = NONE THEN [s EXCEPT !.ret = FALSE]
  ELSE move_then_focus(move_window_to_here(s, current(s), f), current(s), f)

\* Window::move_to_adjacent_desktop
move_to_adjacent_desktop(s, dir) ==
  IF focused(s) = NULL THEN [s EXCEPT !.ret = FALSE]
  ELSE move_after_switch(Desktop_focus_adjacent(s, dir), focused(s))

\* ------------------------------------------------------------- dispatch
\* An action text is a sequence of words and separators SP (one space
\* character each); a word is a string without spaces.
SP == " "

\* split(text, " "): a new part starts after every separator, so two
\* adjacent separators (or a trailing one) give an empty part
RECURSIVE SplitFrom(_, _, _)
SplitFrom(text, cur, result) ==
  IF text = <<>> THEN Append(result, cur)
  ELSE IF Head(text) = SP THEN SplitFrom(Tail(text), "", Append(result, cur))
  ELSE SplitFrom(Tail(text), cur \o Head(text), result)

split(text) == SplitFrom(text, "", <<>>)

\* to_lower, on the words the model uses
to_lower(str) ==
  CASE str = "FOCUS" -> "focus"
    [] str = "Swap" -> "swap"
    [] str = "Window" -> "window"
    [] str = "LEFT" -> "left"
    [] OTHER -> str

\* to_action: INVALID stands for the runtime_error it throws
INVALID == "<invalid>"
to_action(str) ==
  LET lstr == to_lower(str)
  IN IF lstr \in {"focus", "swap", "move_to_desktop", "close", "terminate", "reload"}
     THEN lstr ELSE INVALID

\* to_target
to_target(str) ==
  LET lstr == to_lower(str)
  IN IF lstr \in {"window", "desktop"} THEN lstr ELSE INVALID

\* to_direction
to_direction(str) ==
  LET lstr == to_lower(str)
  IN IF lstr \in {"up", "down", "left", "right"} THEN lstr ELSE INVALID

Throw(s) == [s EXCEPT !.threw = TRUE]

\* ------------------------------------------- hotkeys and configuration
\* A key combination is kept as the sequence of its part names, the text
\* already cut at its separator; a name of one character is one of Chars.
Chars == {"h", "j", "k", "l", "q", "r", "1", "2"}

\* string_to_modifier: the modifier flag of a name
Modifiers == {"ctrl", "control", "alt", "super", "win", "shift"}
string_to_modifier(name) ==
  CASE name \in {"ctrl", "control"} -> "MOD_CONTROL"
    [] name = "alt" -> "MOD_ALT"
    [] name \in {"super", "win"} -> "MOD_WIN"
    [] OTHER -> "MOD_SHIFT"

\* string_to_keycode: the virtual key of a name (the modifier names of the
\* table never reach it in Hotkeys::add)
KeyNames == {"up", "down", "left", "right", "back", "backspace", "tab",
             "return", "enter", "escape", "esc", "space"}
string_to_keycode(name) ==
  CASE name = "backspace" -> "back"
    [] name = "enter" -> "return"
    [] name = "esc" -> "escape"
    [] OTHER -> name

\* keycode 0: no key seen yet
NoKeycode == "0"

\* the parsing loop of Hotkeys::add over the parts of a key combination;
\* ok is FALSE when it throws (duplicate or unknown keycode)
RECURSIVE parse_keycombo(_, _, _)
parse_keycombo(parts, mod, keycode) ==
  IF parts = <<>> THEN [ok |-> TRUE, mod |-> mod, keycode |-> keycode]
  ELSE LET name == to_lower(Head(parts))
       IN IF name \in Modifiers
          THEN parse_keycombo(Tail(parts), mod \cup {string_to_modifier(name)}, keycode)
          ELSE IF keycode # NoKeycode
          THEN [ok |-> FALSE, mod |-> mod, keycode |-> keycode]
          ELSE IF name \in KeyNames
          THEN parse_keycombo(Tail(parts), mod, string_to_keycode(name))
          ELSE IF name \notin Chars
          THEN [ok |-> FALSE, mod |-> mod, keycode |-> keycode]
          ELSE parse_keycombo(Tail(parts), mod, name)

\* RegisterHotKey(nullptr, id, mod, keycode) succeeds unless the id or the
\* key combination is registered already
RegisterHotKey(s, id, mod, keycode) ==
  \A r \in s.registered : r.id # id /\ ~(r.mod = mod /\ r.keycode = keycode)

\* UnregisterHotKey(nullptr, id); its result is not looked at
UnregisterHotKey(registered, id) == {r \in registered : r.id # id}

\* Hotkeys::add
Hotkeys_add(s, keycombo, action) ==
  LET id == Len(s.hotkeys)
      p == parse_keycombo(keycombo, {}, NoKeycode)
  IN IF ~p.ok THEN Throw(s)
     ELSE IF ~RegisterHotKey(s, id, p.mod, p.keycode) THEN Throw(s)
     ELSE [s EXCEPT !.registered = @ \cup {[id |-> id, mod |-> p.mod, keycode |-> p.keycode]},
                    !.hotkeys = Append(@, [id |-> id, action |-> action, keycombo |-> keycombo])]

\* a variant of Hotkeys::clear that empties the table and leaves the
\* registrations with the OS
Hotkeys_clear_table_only(s) == [s EXCEPT !.hotkeys = <<>>]

\* Hotkeys::clear
RECURSIVE UnregisterUpTo(_, _)
UnregisterUpTo(registered, n) ==
  IF n = 0 THEN registered
  ELSE UnregisterUpTo(UnregisterHotKey(registered, n - 1), n - 1)

Hotkeys_clear(s) ==
  [s EXCEPT !.registered = UnregisterUpTo(@, Len(s.hotkeys)), !.hotkeys = <<>>]

\* Hotkeys::action_of: the action text bound to a hotkey id; found is
\* FALSE when it throws on an id outside the table
action_of(hotkeys, id) ==
  IF id < 0 \/ id >= Len(hotkeys) THEN [found |-> FALSE, action |-> <<>>]
  ELSE [found |-> TRUE, action |-> hotkeys[id + 1].action]

\* An entry of a configuration file's hotkeys table: its key and its value,
\* which is an action text when is_string.
Entry(keycombo, action) == [key |-> keycombo, is_string |-> TRUE, value |-> action]
NumberEntry(keycombo) == [key |-> keycombo, is_string |-> FALSE, value |-> <<>>]

\* the loop of load_cfg over the hotkeys table, left at the first add
\* that throws
RECURSIVE AddEntries(_, _)
AddEntries(s, entries) ==
  IF entries = <<>> \/ s.threw THEN s
  ELSE LET e == Head(entries)
       IN AddEntries(IF e.is_string THEN Hotkeys_add(s, e.key, e.value) ELSE s,
                     Tail(entries))

\* load_cfg, the hotkeys of the file (its other settings are not kept)
load_cfg(s, file) ==
  IF ~file.has_hotkeys THEN s
  ELSE AddEntries(Hotkeys_clear(s), file.hotkeys)

Table(entries) == [has_hotkeys |-> TRUE, hotkeys |-> entries]
NoTable == [has_hotkeys |-> FALSE, hotkeys |-> <<>>]

\* the text Config::load_default parses, its entries in key order
DefaultConfig ==
  Table(<<Entry(<<"alt", "1">>, <<"focus", " ", "desktop", " ", "left">>),
          Entry(<<"alt", "2">>, <<"focus", " ", "desktop", " ", "right">>),
          Entry(<<"alt", "down">>, <<"focus", " ", "window", " ", "down">>),
          Entry(<<"alt", "h">>, <<"focus", " ", "window", " ", "left">>),
          Entry(<<"alt", "j">>, <<"focus", " ", "window", " ", "down">>),
          Entry(<<"alt", "k">>, <<"focus", " ", "window", " ", "up">>),
          Entry(<<"alt", "l">>, <<"focus", " ", "window", " ", "right">>),
          Entry(<<"alt", "left">>, <<"focus", " ", "window", " ", "left">>),
          Entry(<<"alt", "right">>, <<"focus", " ", "window", " ", "right">>),
          Entry(<<"alt", "shift", "down">>, <<"swap", " ", "window", " ", "down">>),
          Entry(<<"alt", "shift", "h">>, <<"swap", " ", "window", " ", "left">>),
          Entry(<<"alt", "shift", "j">>, <<"swap", " ", "window", " ", "down">>),
          Entry(<<"alt", "shift", "k">>, <<"swap", " ", "window", " ", "up">>),
          Entry(<<"alt", "shift", "l">>, <<"swap", " ", "window", " ", "right">>),
          Entry(<<"alt", "shift", "left">>, <<"swap", " ", "window", " ", "left">>),
          Entry(<<"alt", "shift", "q">>, <<"close", " ", "window">>),
          Entry(<<"alt", "shift", "r">>, <<"reload">>),
          Entry(<<"alt", "shift", "right">>, <<"swap", " ", "window", " ", "right">>),
          Entry(<<"alt", "shift", "up">>, <<"swap", " ", "window", " ", "up">>),
          Entry(<<"alt", "up">>, <<"focus", " ", "window", " ", "up">>),
          Entry(<<"ctrl", "alt", "shift", "q">>, <<"terminate", " ", "window">>)>>)

\* Config::load_default
load_default(s) == load_cfg(s, DefaultConfig)

\* The configuration files the model knows, by name:
\*   "plain"     a hotkeys table whose entries all register
\*   "other"     another such table, with no binding in common with "plain"
\*   "number"    a table with an entry whose value is no string
\*   "settings"  a file without a hotkeys table
\*   "clash"     a table in which two keys name the same key combination
\*   "unknown"   a table with a key that names no key
\*   "keys"      a table with a binding whose action invoke_action rejects
ConfigFiles == {"plain", "other", "number", "settings", "clash", "unknown", "keys"}
Contents(f) ==
  CASE f = "plain" ->
         Table(<<Entry(<<"alt", "h">>, <<"focus", " ", "window", " ", "left">>),
                 Entry(<<"alt", "shift", "r">>, <<"reload">>)>>)
    [] f = "other" ->
         Table(<<Entry(<<"ctrl", "q">>, <<"close", " ", "window">>),
                 Entry(<<"ctrl", "r">>, <<"reload">>)>>)
    [] f = "number" ->
         Table(<<Entry(<<"alt", "l">>, <<"focus", " ", "window", " ", "right">>),
                 NumberEntry(<<"alt", "q">>),
                 Entry(<<"alt", "r">>, <<"reload">>)>>)
    [] f = "settings" -> NoTable
    [] f = "keys" ->
         Table(<<Entry(<<"alt", "1">>, <<"swap", " ", "desktop", " ", "left">>),
                 Entry(<<"alt", "h">>, <<"focus", " ", "window", " ", "left">>),
                 Entry(<<"alt", "l">>, <<"focus", " ", "window", " ", "right">>)>>)
    [] f = "clash" ->
         Table(<<Entry(<<"alt", "r">>, <<"reload">>),
                 Entry(<<"control", "q">>, <<"close", " ", "window">>),
                 Entry(<<"ctrl", "q">>, <<"terminate", " ", "window">>)>>)
    [] OTHER ->
         Table(<<Entry(<<"alt", "k">>, <<"focus", " ", "window", " ", "up">>),
                 Entry(<<"alt", "pause">>, <<"reload">>)>>)

\* s.files tells, for each place reload looks at, the file found there:
\* cwd is twm.toml in the working directory, env the file TWM_CONFIG_PATH
\* names, appdata the twm.toml under %APPDATA%/twm.  Missing: no such file;
\* Unset: the environment variable is not set.
Missing == "<missing>"
Unset == "<unset>"
exists(s, path) == s.files[path] \in ConfigFiles

\* Config::load_from_file
load_from_file(s, path) == load_cfg(s, Contents(s.files[path]))

\* a variant of the path selection that does not consult TWM_CONFIG_PATH
config_path_without_env(s) ==
  IF ~exists(s, "cwd") /\ s.files.appdata # Unset THEN "appdata" ELSE "cwd"

\* the path reload settles on
config_path(s) ==
  LET first == "cwd"
      second == IF ~exists(s, first) /\ s.files.env # Unset THEN "env" ELSE first
  IN IF ~exists(s, second) /\ s.files.appdata # Unset THEN "appdata" ELSE second

\* reload(); s.loaded tells where the configuration came from.  The call is
\* logged; the drop-shadow setting is not kept.
reload(s) ==
  LET logged == [s EXCEPT !.calls = Append(s.calls, <<"reload", NULL, TRUE>>)]
      path == config_path(s)
  IN IF ~exists(s, path) THEN load_default([logged EXCEPT !.loaded = "default"])
     ELSE load_from_file([logged EXCEPT !.loaded = path], path)

\* a variant of these arms that hands a desktop target to the window
\* operation instead of throwing
InvokeDirectedAnyTarget(s, action_type, parts) ==
  LET target == to_target(parts[2])
      dir == to_direction(parts[3])
  IN IF Len(parts) # 3 THEN Throw(s)
     ELSE IF target = INVALID THEN Throw(s)
     ELSE IF dir = INVALID THEN Throw(s)
     ELSE IF action_type = "focus"
          THEN IF target = "window" THEN focus_adjacent_or_default(s, dir)
               ELSE Desktop_focus_adjacent(s, dir)
     ELSE IF action_type = "swap" THEN swap_adjacent(s, dir)
     ELSE move_to_adjacent_desktop(s, dir)

\* the `case Action::Focus / Swap / MoveToDesktop` arms of invoke_action
InvokeDirected(s, action_type, parts) ==
  LET target == to_target(parts[2])
      dir == to_direction(parts[3])
  IN IF Len(parts) # 3 THEN Throw(s)
     ELSE IF target = INVALID THEN Throw(s)
     ELSE IF dir = INVALID THEN Throw(s)
     ELSE IF action_type = "focus"
          THEN IF target = "window" THEN focus_adjacent_or_default(s, dir)
               ELSE Desktop_focus_adjacent(s, dir)
     ELSE IF action_type = "swap"
          THEN IF target = "window" THEN swap_adjacent(s, dir)
               ELSE Throw(s)
     ELSE IF target = "window" THEN move_to_adjacent_desktop(s, dir)
          ELSE Throw(s)

\* a variant of these arms that takes the foreground window whether or
\* not the registry tracks it
InvokeFocusedOnForeground(s, action_type, parts) ==
  LET target == to_target(parts[2])
      w == GetForegroundWindow(s)
  IN IF Len(parts) # 2 THEN Throw(s)
     ELSE IF target = INVALID THEN Throw(s)
     ELSE IF target = "desktop" THEN Throw(s)
     ELSE IF w = NULL THEN s
     ELSE IF action_type = "close" THEN close_window(s, w)
     ELSE terminate_process(s, w)

\* the `case Action::Close / Terminate` arms of invoke_action
InvokeFocused(s, action_type, parts) ==
  LET target == to_target(parts[2])
      w == focused(s)
  IN IF Len(parts) # 2 THEN Throw(s)
     ELSE IF target = INVALID THEN Throw(s)
     ELSE IF target = "desktop" THEN Throw(s)
     ELSE IF w = NULL THEN s
     ELSE IF action_type = "close" THEN close_window(s, w)
     ELSE terminate_process(s, w)

\* invoke_action: s.threw tells whether a runtime_error left it
invoke_action(s, action) ==
  LET parts == split(action)
      action_type == to_action(parts[1])
  IN IF Len(parts) < 1 THEN Throw(s)
     ELSE IF action_type = INVALID THEN Throw(s)
     ELSE IF action_type \in {"focus", "swap", "move_to_desktop"}
          THEN InvokeDirected(s, action_type, parts)
     ELSE IF action_type \in {"close", "terminate"}
          THEN InvokeFocused(s, action_type, parts)
     ELSE reload(s)

\* ------------------------------------------------------------ the state
VARIABLES
  all,          \* Desktop::all()
  current_id,   \* Desktop::current_id()
  pc,           \* where main's loop is: "sleep", "peek", "invoke", "exited"
  msg,          \* the action text of the hotkey being dispatched
  win,          \* OS: Handles -> [exists, desk, title, iconic, visible, rect]
  fg,           \* OS: foreground window
  osCur,        \* OS: current virtual desktop
  now,          \* OS: monotonic clock
  op,           \* history: the last step
  pre,          \* history: Desktop::all() before the last update_all
  calls,        \* history: platform calls of the last dispatch
  ef,           \* history: the last dispatch's ensure_focus call
  adj,          \* history: the last dispatch's adjacency query
  ret,          \* history: the bool the last dispatched operation returned
  hotkeys,      \* cfg.hotkeys: the bindings, a binding's id is its index - 1
  registered,   \* OS: the hotkeys registered for this thread
  files,        \* OS: the configuration files and environment variables
  loaded,       \* history: where the last reload took the configuration from
  queue,        \* OS: the thread's message queue
  reads         \* history: the windows whose Window::update looked the focused
                \* window up in the registry during the last refresh

vars == <<all, current_id, pc, msg, win, fg, osCur, now, op, pre,
          calls, ef, adj, ret, hotkeys, registered, files, loaded, queue,
          reads>>

cfgvars == <<hotkeys, registered, files, loaded>>

NoEf == [called |-> FALSE]
NoAdj == [called |-> FALSE]
NoPre == <<>>

\* the iteration orders an unordered_map<HWND, Window> may have
ScanOrders ==
  {o \in [1..Cardinality(Handles) -> Handles] : \A i, j \in DOMAIN o : o[i] = o[j] => i = j}
AscendingOrder == SetToSeq(Handles)

\* the program state as the operators see it, with this operation's inputs:
\* platform-call outcomes ok, iteration order, post-switch foreground pick
State(ok, order, pick, t) ==
  [all |-> all, cur |-> current_id, win |-> win, fg |-> fg, osCur |-> osCur,
   now |-> t, pre |-> NoPre, calls |-> <<>>, ef |-> NoEf, adj |-> NoAdj,
   threw |-> FALSE, ret |-> FALSE, ok |-> ok, order |-> order, pick |-> pick,
   hotkeys |-> hotkeys, registered |-> registered, files |-> files,
   loaded |-> loaded, reads |-> {}]

Commit(s) ==
  /\ all' = s.all
  /\ current_id' = s.cur
  /\ win' = s.win
  /\ fg' = s.fg
  /\ osCur' = s.osCur
  /\ pre' = s.pre
  /\ calls' = s.calls
  /\ ef' = s.ef
  /\ adj' = s.adj
  /\ ret' = s.ret
  /\ hotkeys' = s.hotkeys
  /\ registered' = s.registered
  /\ files' = s.files
  /\ loaded' = s.loaded
  /\ reads' = s.reads

\* steps that are no dispatch forget the history of the last one
Forget ==
  /\ pre' = NoPre
  /\ calls' = <<>>
  /\ ef' = NoEf
  /\ adj' = NoAdj
  /\ ret' = FALSE
  /\ reads' = {}

Text3(a, b, c) == <<a, SP, b, SP, c>>
Text2(a, b) == <<a, SP, b>>

\* the action texts bound to hotkeys in the configuration the program
\* runs with: some of the default configuration's (src/src/config.cpp,
\* Config::load_default), a move_to_desktop and an unsupported one
BoundTexts ==
  {Text3("focus", "window", d) : d \in {"left", "right", "down"}}
    \cup {Text3("swap", "window", "right"), Text3("move_to_desktop", "window", "right"),
          Text3("focus", "desktop", "right"), Text2("close", "window"),
          Text3("swap", "desktop", "left")}

TypeOK ==
  /\ DOMAIN all \subseteq Guids
  /\ \A g \in DOMAIN all :
       /\ DOMAIN all[g].windows \subseteq Handles
       /\ all[g].last_focus \in Handles \cup {NULL}
       /\ \A h \in DOMAIN all[g].windows :
            /\ all[g].windows[h].rect \in RectPool
            /\ all[g].windows[h].time \in 0..MaxClock
            /\ all[g].windows[h].marked \in BOOLEAN
  /\ current_id \in Guids \cup {NONE}
  /\ pc \in {"sleep", "peek", "invoke", "exited"}
  /\ fg \in Handles \cup {NULL}
  /\ osCur \in Guids
  /\ now \in 1..MaxClock

\* ----------------------------------------------------------------- Init
\* The hotkey table, the configuration files and the message queue are
\* followed from main's start by ConfigSpec and QueueSpec; in the other
\* specifications the action text of an arriving hotkey is drawn from the
\* texts the specification names.
NoFiles == [cwd |-> Missing, env |-> Unset, appdata |-> Unset]
NoConfig ==
  /\ hotkeys = <<>>
  /\ registered = {}
  /\ files = NoFiles
  /\ loaded = "none"
  /\ queue = <<>>

\* main() before its first tick: the registry is empty.  The desktop shows
\* three titled, visible windows, two side by side on the first virtual
\* desktop and one on the second; the left one has the focus.
InitWin ==
  [h \in Handles |->
     [exists |-> TRUE,
      desk |-> IF h = 3 THEN 2 ELSE 1,
      title |-> <<"a", "b">>,
      iconic |-> FALSE,
      visible |-> TRUE,
      rect |-> IF h = 1 THEN RectA ELSE IF h = 2 THEN RectB ELSE RectC]]

Init ==
  /\ all = <<>>
  /\ current_id = NONE
  /\ pc = "sleep"
  /\ msg = <<>>
  /\ win = InitWin
  /\ fg = 1
  /\ osCur = 1
  /\ now = 1
  /\ op = "idle"
  /\ pre = NoPre
  /\ calls = <<>>
  /\ ef = NoEf
  /\ adj = NoAdj
  /\ ret = FALSE
  /\ reads = {}
  /\ NoConfig

\* ------------------------------------------------- the OS and the user
\* OS-side changes happen between the loop's steps, never between a
\* dispatch's refresh and its action.
EnvCanAct == pc \in {"sleep", "peek"} /\ now < MaxClock

EnvFrame ==
  /\ now' = now + 1
  /\ op' = "idle"
  /\ Forget
  /\ UNCHANGED <<all, current_id, pc, msg>>
  /\ UNCHANGED <<cfgvars, queue>>

\* a window is created or destroyed; a destroyed window loses the focus
OsCreateDestroy(h) ==
  /\ EnvCanAct
  /\ win' = [win EXCEPT ![h].exists = ~win[h].exists]
  /\ fg' = IF h = fg THEN NULL ELSE fg
  /\ UNCHANGED osCur
  /\ EnvFrame

OsSetTitle(h, t) ==
  /\ EnvCanAct
  /\ win[h].title # t
  /\ win' = [win EXCEPT ![h].title = t]
  /\ UNCHANGED <<fg, osCur>>
  /\ EnvFrame

OsMinimizeRestore(h) ==
  /\ EnvCanAct
  /\ win' = [win EXCEPT ![h].iconic = ~win[h].iconic]
  /\ UNCHANGED <<fg, osCur>>
  /\ EnvFrame

OsShowHide(h) ==
  /\ EnvCanAct
  /\ win' = [win EXCEPT ![h].visible = ~win[h].visible]
  /\ UNCHANGED <<fg, osCur>>
  /\ EnvFrame

OsMoveWindow(h, r) ==
  /\ EnvCanAct
  /\ win[h].rect # r
  /\ win' = [win EXCEPT ![h].rect = r]
  /\ UNCHANGED <<fg, osCur>>
  /\ EnvFrame

\* a window is sent to another virtual desktop (or to none); when it leaves
\* the desktop the user looks at it loses the focus
OsSendToDesktop(h, g) ==
  /\ EnvCanAct
  /\ win[h].desk # g
  /\ win' = [win EXCEPT ![h].desk = g]
  /\ fg' = IF h = fg /\ g # NONE /\ g # osCur THEN NULL ELSE fg
  /\ UNCHANGED osCur
  /\ EnvFrame

\* the user activates a window (or the shell: NULL)
OsFocus(h) ==
  /\ EnvCanAct
  /\ h # fg
  /\ h # NULL => win[h].exists
  /\ fg' = h
  /\ osCur' = IF h # NULL /\ win[h].desk # NONE THEN win[h].desk ELSE osCur
  /\ UNCHANGED win
  /\ EnvFrame

\* the user switches the virtual desktop
OsSwitchDesktop(g, h) ==
  /\ EnvCanAct
  /\ g # osCur
  /\ h # NULL => win[h].exists /\ win[h].desk = g
  /\ osCur' = g
  /\ fg' = h
  /\ UNCHANGED win
  /\ EnvFrame

\* ------------------------------------------------------- tick and main
\* tick(), first block: the periodic update is due
PeriodicUpdate ==
  /\ pc = "sleep"
  /\ Commit(update_all(State(<<>>, AscendingOrder, NULL, now)))
  /\ pc' = "peek"
  /\ op' = "update_all"
  /\ UNCHANGED <<msg, now>>
  /\ UNCHANGED queue

\* tick(), first block: the update interval has not elapsed
PeriodicSkip ==
  /\ pc = "sleep"
  /\ pc' = "peek"
  /\ op' = "idle"
  /\ Forget
  /\ UNCHANGED <<all, current_id, msg, win, fg, osCur, now>>
  /\ UNCHANGED <<cfgvars, queue>>

\* a variant of the WM_HOTKEY case that goes to invoke_action without
\* the update
PeekHotkeyWithoutUpdate(text) ==
  /\ pc = "peek"
  /\ now < MaxClock
  /\ now' = now + 1
  /\ msg' = text
  /\ pc' = "invoke"
  /\ op' = "hotkey"
  /\ Forget
  /\ UNCHANGED <<all, current_id, win, fg, osCur>>
  /\ UNCHANGED <<cfgvars, queue>>

\* PeekMessage returns WM_HOTKEY for a hotkey bound to `text`:
\* Desktop::update_all() runs, then invoke_action (step Invoke)
PeekHotkey(text) ==
  /\ pc = "peek"
  /\ now < MaxClock
  /\ now' = now + 1
  /\ Commit(update_all(State(<<>>, AscendingOrder, NULL, now + 1)))
  /\ msg' = text
  /\ pc' = "invoke"
  /\ op' = "update_all"
  /\ UNCHANGED queue

\* the inputs of one invoke_action: outcomes of its fallible platform
\* calls, the iteration order of m_windows, and the window the OS focuses
\* after a desktop switch
Outcomes(parts) ==
  IF to_action(parts[1]) \in {"focus", "swap", "move_to_desktop"}
  THEN [1..2 -> BOOLEAN]
  ELSE IF to_action(parts[1]) \in {"close", "terminate"}
  THEN {<<TRUE>>, <<FALSE>>}
  ELSE {<<>>}

Orders(parts) ==
  IF to_action(parts[1]) \in {"focus", "swap"} /\ Len(parts) = 3 /\ parts[2] = "window"
  THEN ScanOrders ELSE {AscendingOrder}

Picks(parts) ==
  IF Len(parts) = 3 /\ parts[3] \in {"left", "right"}
     /\ (to_action(parts[1]) = "move_to_desktop" \/ parts[2] = "desktop")
  THEN PickSet(win, osCur, parts[3]) ELSE {NULL}

\* invoke_action(cfg.hotkeys.action_of(msg.wParam)); a runtime_error
\* leaves tick() and main's loop: main logs it and returns -1
Invoke ==
  /\ pc = "invoke"
  /\ \E ok \in Outcomes(split(msg)), order \in Orders(split(msg)),
        pick \in Picks(split(msg)) :
       LET s == invoke_action(State(ok, order, pick, now), msg)
       IN /\ Commit(s)
          /\ pc' = IF s.threw THEN "exited" ELSE "peek"
  /\ op' = "invoke"
  /\ UNCHANGED <<msg, now>>
  /\ UNCHANGED queue

\* PeekMessage returns a message that is not WM_HOTKEY: it is logged
PeekOther ==
  /\ pc = "peek"
  /\ op' = "other"
  /\ Forget
  /\ UNCHANGED <<all, current_id, pc, msg, win, fg, osCur, now>>
  /\ UNCHANGED <<cfgvars, queue>>

\* PeekMessage finds the queue empty: tick() returns and main sleeps
PeekNone ==
  /\ pc = "peek"
  /\ pc' = "sleep"
  /\ op' = "idle"
  /\ Forget
  /\ UNCHANGED <<all, current_id, msg, win, fg, osCur, now>>
  /\ UNCHANGED <<cfgvars, queue>>

Env ==
  \/ \E h \in Handles : OsCreateDestroy(h)
  \/ \E h \in Handles, t \in Titles : OsSetTitle(h, t)
  \/ \E h \in Handles : OsMinimizeRestore(h)
  \/ \E h \in Handles : OsShowHide(h)
  \/ \E h \in Handles, r \in RectPool : OsMoveWindow(h, r)
  \/ \E h \in Handles, g \in Guids \cup {NONE} : OsSendToDesktop(h, g)
  \/ \E h \in Handles \cup {NULL} : OsFocus(h)
  \/ \E g \in Guids, h \in Handles \cup {NULL} : OsSwitchDesktop(g, h)

Next ==
  \/ Env
  \/ PeriodicUpdate
  \/ PeriodicSkip
  \/ \E text \in BoundTexts : PeekHotkey(text)
  \/ Invoke
  \/ PeekOther
  \/ PeekNone

Spec == Init /\ [][Next]_vars

\* ------------------------------------------------------------ properties
\* a refresh has just run to completion: pre is the registry it started from
\* and win, fg, osCur are what it was answered
AfterRefresh == op = "update_all"

\* the handles desktop g of registry a tracks
WindowsOf(a, g) == IF g \in DOMAIN a THEN DOMAIN a[g].windows ELSE {}
TrackedIn(a, g, h) == h \in WindowsOf(a, g)
Tracked(a, h) == \E g \in DOMAIN a : TrackedIn(a, g, h)

\* the OS's answers about window h
Enumerated(h) == win[h].exists
Manageable(h) == win[h].title # <<>> /\ ~win[h].iconic /\ win[h].visible
QueriedTitle(h) == get_window_text([win |-> win], h)

\* C1: no action failure terminates the poll loop: after a dispatch,
\* failed or not, the loop is back at PeekMessage, ready for the next
\* trigger.
C1_LoopSurvivesDispatch == op = "invoke" => pc = "peek"

\* C2: after a refresh the registry tracks exactly the enumerated windows
\* that have a desktop id and are manageable, each under the desktop of its
\* reported GUID, with the queried title and bounds.
C2_RefreshTracksExactlyManageable ==
  AfterRefresh =>
    \A g \in Guids, h \in Handles :
      /\ TrackedIn(all, g, h) <=>
           (Enumerated(h) /\ win[h].desk = g /\ Manageable(h))
      /\ TrackedIn(all, g, h) =>
           /\ all[g].windows[h].name = QueriedTitle(h)
           /\ all[g].windows[h].rect = win[h].rect

\* a refresh that kept a tracked window, giving it the new bounds, and
\* left an enumerated window with a desktop id untracked as unmanageable
C2_Witness ==
  /\ AfterRefresh
  /\ \E g \in DOMAIN all, h \in Handles :
       /\ TrackedIn(pre, g, h) /\ TrackedIn(all, g, h)
       /\ pre[g].windows[h].rect # all[g].windows[h].rect
  /\ \E h \in Handles : Enumerated(h) /\ win[h].desk # NONE /\ ~Manageable(h)

\* C3: a tracked window that is absent from the refresh's enumeration, or
\* that the refresh finds unmanageable, is deleted by that refresh.
C3_SweepDeletesAbsentAndUnmanageable ==
  AfterRefresh =>
    \A g \in DOMAIN pre, h \in Handles :
      (TrackedIn(pre, g, h) /\ (~Enumerated(h) \/ ~Manageable(h)))
        => ~Tracked(all, h)

\* a refresh that deleted a window that was enumerated but minimized,
\* hidden or untitled
C3_Witness ==
  /\ AfterRefresh
  /\ \E g \in DOMAIN pre, h \in Handles :
       /\ TrackedIn(pre, g, h)
       /\ Enumerated(h) /\ ~Manageable(h)
       /\ ~Tracked(all, h)

\* C4 as stated: a tracked window that is absent from a single refresh pass
\* is not yet removed by it.
C4_SingleAbsenceKeepsWindow ==
  AfterRefresh =>
    \A g \in DOMAIN pre, h \in Handles :
      (TrackedIn(pre, g, h) /\ ~Enumerated(h)) => TrackedIn(all, g, h)

\* C4 amended: the first refresh pass a tracked window is absent from
\* removes it, and a window a refresh starts to track is a new entry
\* whose last_interacted_time is the epoch, or the refresh's clock reading
\* when it holds the focus.
C4_FirstAbsenceRemovesWindow ==
  AfterRefresh =>
    /\ \A g \in DOMAIN pre, h \in Handles :
         (TrackedIn(pre, g, h) /\ ~Enumerated(h)) => ~Tracked(all, h)
    /\ \A g \in DOMAIN all, h \in Handles :
         (TrackedIn(all, g, h) /\ ~TrackedIn(pre, g, h))
           => all[g].windows[h].time = IF fg = h THEN now ELSE Epoch

\* a refresh that removed an absent window which had been interacted with,
\* and started to track another window in a registry that was not empty
C4_Witness ==
  /\ AfterRefresh
  /\ \E g \in DOMAIN pre, h \in Handles :
       /\ TrackedIn(pre, g, h) /\ pre[g].windows[h].time # Epoch
       /\ ~Enumerated(h) /\ ~Tracked(all, h)
  /\ \E g \in DOMAIN all, h \in Handles :
       /\ TrackedIn(all, g, h) /\ ~TrackedIn(pre, g, h)
       /\ fg # h

\* the desktops of a registry, the handles of each, and every window's rect
Shape(a) == [g \in DOMAIN a |-> [h \in DOMAIN a[g].windows |-> a[g].windows[h].rect]]

\* C5: mark/sweep idempotence: a refresh that directly follows a refresh,
\* with no OS-side change in between, leaves the same desktops, the same
\* handles in each and the same rect for every window.
C5_RefreshIdempotent ==
  [][(op = "update_all" /\ op' = "update_all") => Shape(all') = Shape(all)]_vars

\* the second of two successive refreshes has run on a registry with
\* windows: the periodic update, then the update that precedes a dispatch
C5_Witness ==
  /\ AfterRefresh
  /\ pc = "invoke"
  /\ pre # <<>>
  /\ Shape(pre) = Shape(all)
  /\ \A g \in DOMAIN all : \A h \in DOMAIN all[g].windows :
       ~pre[g].windows[h].marked /\ all[g].windows[h].rect = win[h].rect

\* C6: after a refresh no desktop of the registry has zero windows.
C6_NoEmptyDesktopAfterRefresh ==
  AfterRefresh => \A g \in DOMAIN all : DOMAIN all[g].windows # {}

\* a refresh whose sweep emptied a desktop: its only window is no longer
\* manageable or enumerated, and the desktop is gone with it
C6_Witness ==
  /\ AfterRefresh
  /\ all # <<>>
  /\ \E g \in DOMAIN pre :
       /\ g \notin DOMAIN all
       /\ \E h \in Handles :
            DOMAIN pre[g].windows = {h} /\ ~(Enumerated(h) /\ Manageable(h))

\* the manageable live window that holds the OS input focus, if any
FocusedManageable ==
  fg # NULL /\ Enumerated(fg) /\ win[fg].desk # NONE /\ Manageable(fg)

\* C7 as stated: the current desktop a refresh computes is the desktop of
\* the manageable live window that holds the focus, and none when no
\* manageable window holds it.
C7_CurrentIsFocusedWindowsDesktop ==
  AfterRefresh =>
    current_id = IF FocusedManageable THEN win[fg].desk ELSE NONE

\* C7 amended: the current desktop a refresh computes is the desktop of
\* the enumerated manageable windows that the platform reports to be on
\* the current virtual desktop, whether or not one of them holds the
\* focus; it is none exactly when there is no such window.
C7_CurrentIsDesktopOnScreen ==
  AfterRefresh =>
    LET onScreen == {h \in Handles : Enumerated(h) /\ win[h].desk # NONE
                                       /\ Manageable(h) /\ win[h].desk = osCur}
    IN /\ onScreen # {} => (current_id = osCur /\ current_id \in DOMAIN all)
       /\ onScreen = {} => current_id = NONE

\* a refresh that found a current desktop while no window held the focus
C7_Witness ==
  /\ AfterRefresh
  /\ fg = NULL
  /\ current_id # NONE
  /\ DOMAIN all[current_id].windows # {}

\* C8: after a refresh each desktop's last_focus is none or a window
\* tracked in that desktop; it is the OS-focused window when that window
\* is manageable and on this desktop, and otherwise its previous value as
\* long as that window is still tracked there.
C8_LastFocusAfterRefresh ==
  AfterRefresh =>
    \A g \in DOMAIN all :
      LET lf == all[g].last_focus
          old == IF g \in DOMAIN pre THEN pre[g].last_focus ELSE NULL
      IN /\ lf = NULL \/ TrackedIn(all, g, lf)
         /\ (FocusedManageable /\ win[fg].desk = g) => lf = fg
         /\ ~(FocusedManageable /\ win[fg].desk = g) =>
              lf = IF TrackedIn(all, g, old) THEN old ELSE NULL

\* a refresh that kept one desktop's last_focus although the focus is
\* elsewhere, and cleared another's because its window was deleted
C8_Witness ==
  /\ AfterRefresh
  /\ \E g \in DOMAIN all :
       /\ all[g].last_focus # NULL /\ all[g].last_focus # fg
       /\ g \in DOMAIN pre /\ pre[g].last_focus = all[g].last_focus
  /\ \E g \in DOMAIN all :
       /\ g \in DOMAIN pre /\ pre[g].last_focus # NULL
       /\ all[g].last_focus = NULL

\* the platform calls made since ensure_focus was entered
SinceEnsureFocus == SubSeq(calls, ef.ncalls + 1, Len(calls))

\* C9: ensure_focus makes no focus call and returns false (unchanged) when
\* the OS-focused window is tracked in the desktop; otherwise it makes one
\* focus call, on last_focus if that window is tracked there and else on
\* some tracked window, and returns that call's outcome; with no window
\* to pick it makes no call and returns false.
C9_EnsureFocus ==
  (op = "invoke" /\ ef.called) =>
    IF ef.fg \in ef.tracked \/ ef.tracked = {}
    THEN SinceEnsureFocus = <<>> /\ ret = FALSE
    ELSE /\ Len(SinceEnsureFocus) = 1
         /\ SinceEnsureFocus[1][1] = "focus_window"
         /\ SinceEnsureFocus[1][2] \in ef.tracked
         /\ ef.last_focus \in ef.tracked => SinceEnsureFocus[1][2] = ef.last_focus
         /\ ret = SinceEnsureFocus[1][3]
         /\ ret => fg = SinceEnsureFocus[1][2]

\* a dispatch whose ensure_focus found the focus outside the desktop and
\* gave it back to last_focus, although other windows are tracked there
C9_Witness ==
  /\ op = "invoke" /\ ef.called
  /\ ef.fg \notin ef.tracked
  /\ ef.last_focus \in ef.tracked
  /\ Cardinality(ef.tracked) > 1
  /\ ret = TRUE

\* window oh of desktop record d lies on the requested side of window h
\* (centers in doubled units, beyond the tolerance)
OnRequestedSide(d, h, oh, dir) ==
  LET axis == IF dir \in {"left", "right"} THEN 1 ELSE 2
      off == center2(d.windows[h].rect)[axis] - center2(d.windows[oh].rect)[axis]
  IN /\ oh # h
     /\ Abs(off) > 2 * closeness_tolerance
     /\ (off > 0) = (dir \in {"up", "left"})

\* C10: the adjacency query returns none when the handle is not tracked
\* in the desktop or when no tracked window lies on the requested side;
\* a window it returns is tracked in the same desktop and is not the
\* source.  Checked where the program can make the query, on the registry
\* a dispatch starts with: for every desktop, handle, direction and
\* iteration order; and for the query the dispatch made.
C10_AdjacentResult ==
  /\ pc = "invoke" =>
     \A g \in DOMAIN all, h \in Handles, dir \in Directions, order \in ScanOrders :
       LET d == all[g]
           res == get_adjacent_window(d, h, dir, order)
       IN /\ h \notin DOMAIN d.windows => res = NULL
          /\ (h \in DOMAIN d.windows
                /\ \A oh \in DOMAIN d.windows : ~OnRequestedSide(d, h, oh, dir))
               => res = NULL
          /\ res # NULL => (res \in DOMAIN d.windows /\ res # h)
  /\ (op = "invoke" /\ adj.called /\ adj.res # NULL) =>
       /\ adj.res # adj.h
       /\ TrackedIn(all, adj.g, adj.h) /\ TrackedIn(all, adj.g, adj.res)

\* a dispatch whose query found a neighbour in a desktop where the
\* opposite direction has none
C10_Witness ==
  /\ op = "invoke" /\ adj.called /\ adj.res # NULL
  /\ adj.g \in DOMAIN all
  /\ \E dir \in Directions :
       get_adjacent_window(all[adj.g], adj.h, dir, AscendingOrder) = NULL

\* ------------------------------------------- the adjacency resolver alone
\* Desktop::get_adjacent_window and Rect::distance_with_axis_preference on
\* their own: one desktop whose three windows have bounds on a grid fine
\* enough to straddle closeness_tolerance.  Window 1 is a plain, an empty
\* or an inverted rectangle centred at (5, 5); windows 2 and 3 are 10 x 10
\* rectangles shifted by up to MaxShift units along x, to either side,
\* and by 0 or twice MaxShift along y.
MaxShift == 5

GeoShifts == (0 - MaxShift)..MaxShift
GeoSources == {MkRect(0, 0, 10, 10), MkRect(5, 5, 5, 5), MkRect(10, 10, 0, 0)}
GeoCandidates ==
  {MkRect(dx, dy, dx + 10, dy + 10) :
     dx \in GeoShifts, dy \in {0, 2 * MaxShift}}
GeoTimes == {Epoch, 1}

\* a tracked window with bounds r, last interacted with at time t
GeoWindow(r, t) == [name |-> <<NUL>>, rect |-> r, time |-> t, marked |-> FALSE]

GeoInit ==
  /\ \E r1 \in GeoSources, r2 \in GeoCandidates, r3 \in GeoCandidates,
        t2 \in GeoTimes, t3 \in GeoTimes :
       /\ all = 1 :> [windows |-> <<GeoWindow(r1, 1), GeoWindow(r2, t2), GeoWindow(r3, t3)>>,
                      last_focus |-> 1]
       /\ win = [h \in Handles |->
                   [exists |-> TRUE, desk |-> 1, title |-> <<"a", "b">>,
                    iconic |-> FALSE, visible |-> TRUE,
                    rect |-> IF h = 1 THEN r1 ELSE IF h = 2 THEN r2 ELSE r3]]
  /\ current_id = 1
  /\ pc = "peek"
  /\ msg = <<>>
  /\ fg = 1
  /\ osCur = 1
  /\ now = 1
  /\ op = "idle"
  /\ pre = NoPre
  /\ calls = <<>>
  /\ ef = NoEf
  /\ adj = NoAdj
  /\ ret = FALSE
  /\ reads = {}
  /\ NoConfig

\* Window::get_adjacent on window h, with m_windows iterated in `order`
QueryAdjacent(h, dir, order) ==
  /\ op = "idle"
  /\ adj' = get_adjacent(State(<<>>, order, NULL, now), h, dir).adj
  /\ op' = "query"
  /\ UNCHANGED <<all, current_id, pc, msg, win, fg, osCur, now, pre, calls, ef, ret, reads>>
  /\ UNCHANGED <<cfgvars, queue>>

\* a.rect().distance_with_axis_preference(axis, b.rect()) for tracked
\* windows a and b; the result (doubled) is left in adj
MeasureDistance(a, b, axis) ==
  /\ op = "idle"
  /\ adj' = [called |-> FALSE, a |-> a, b |-> b, axis |-> axis,
             dist |-> distance_with_axis_preference(
                        all[1].windows[a].rect, axis, all[1].windows[b].rect)]
  /\ op' = "measure"
  /\ UNCHANGED <<all, current_id, pc, msg, win, fg, osCur, now, pre, calls, ef, ret, reads>>
  /\ UNCHANGED <<cfgvars, queue>>

GeoNext ==
  \/ \E h \in Handles, dir \in Directions, order \in ScanOrders : QueryAdjacent(h, dir, order)
  \/ \E a \in Handles, b \in Handles, axis \in {0, 1} : MeasureDistance(a, b, axis)

GeoSpec == GeoInit /\ [][GeoNext]_vars

\* the comparison axis of a direction, as a tuple index
AxisOf(dir) == IF dir \in {"left", "right"} THEN 1 ELSE 2
\* the directions towards smaller and towards larger coordinates on an axis
Lower(axis) == IF axis = 1 THEN "left" ELSE "up"
Higher(axis) == IF axis = 1 THEN "right" ELSE "down"
\* centre of window c minus centre of window s of desktop d on an axis,
\* and the tolerance, both doubled
Offset2(d, s, c, axis) == center2(d.windows[c].rect)[axis] - center2(d.windows[s].rect)[axis]
Tol2 == 2 * closeness_tolerance
\* the tracked windows of d beyond the tolerance on the dir side of s
SideOf(d, s, dir) ==
  {c \in DOMAIN d.windows \ {s} :
     IF dir \in {"left", "up"} THEN Offset2(d, s, c, AxisOf(dir)) < 0 - Tol2
     ELSE Offset2(d, s, c, AxisOf(dir)) > Tol2}

\* C11: side filter: a candidate C whose centre on the comparison axis is
\* less than the source's minus the tolerance is eligible for Left (Up):
\* that query has a result, which is C when no other window lies there;
\* and C is never returned for Right (Down).  Symmetrically for a centre
\* greater than the source's plus the tolerance.
C11_SideFilter ==
  /\ op = "idle" =>
     \A s \in Handles, c \in Handles, axis \in {1, 2}, order \in ScanOrders :
       LET d == all[1]
           lo == get_adjacent_window(d, s, Lower(axis), order)
           hi == get_adjacent_window(d, s, Higher(axis), order)
       IN /\ (c # s /\ Offset2(d, s, c, axis) < 0 - Tol2) =>
               /\ lo # NULL /\ hi # c
               /\ SideOf(d, s, Lower(axis)) = {c} => lo = c
          /\ (c # s /\ Offset2(d, s, c, axis) > Tol2) =>
               /\ hi # NULL /\ lo # c
               /\ SideOf(d, s, Higher(axis)) = {c} => hi = c
  /\ (op = "query" /\ adj.res # NULL) => adj.res \in SideOf(all[1], adj.h, adj.dir)

\* a query to the left answered with the one window beyond the tolerance
\* on that side, while the other one lies to the right
C11_Witness ==
  /\ op = "query" /\ adj.dir = "left" /\ adj.res # NULL
  /\ SideOf(all[1], adj.h, "left") = {adj.res}
  /\ Offset2(all[1], adj.h, adj.res, 1) = 0 - Tol2 - 2
  /\ SideOf(all[1], adj.h, "right") # {}

\* C12 as stated: a candidate whose centre on the comparison axis lies
\* within the tolerance of the source's centre is not excluded by the side
\* test: the query towards it (either query when the centres coincide)
\* has an answer.
C12_NearEqualNotExcluded ==
  op = "idle" =>
    \A s \in Handles, c \in Handles, axis \in {1, 2}, order \in ScanOrders :
      LET d == all[1]
          off == Offset2(d, s, c, axis)
      IN (c # s /\ Abs(off) <= Tol2) =>
           \/ off <= 0 /\ get_adjacent_window(d, s, Lower(axis), order) # NULL
           \/ off >= 0 /\ get_adjacent_window(d, s, Higher(axis), order) # NULL

\* C12 amended: a candidate whose centre on the comparison axis lies
\* within the tolerance of the source's centre (2 units included) fails
\* the side test in both directions of that axis: no query along the axis
\* returns it, and a query whose side holds only such windows returns none.
C12_NearEqualExcluded ==
  /\ op = "idle" =>
     \A s \in Handles, c \in Handles, axis \in {1, 2}, order \in ScanOrders :
       LET d == all[1]
       IN (c # s /\ Abs(Offset2(d, s, c, axis)) <= Tol2) =>
            /\ get_adjacent_window(d, s, Lower(axis), order) # c
            /\ get_adjacent_window(d, s, Higher(axis), order) # c
  /\ (op = "query" /\ SideOf(all[1], adj.h, adj.dir) = {}) => adj.res = NULL

\* a query to the right that returned none although a window's centre is
\* to the right of the source's, by exactly the tolerance
C12_Witness ==
  /\ op = "query" /\ adj.dir = "right" /\ adj.res = NULL
  /\ \E c \in Handles \ {adj.h} : Offset2(all[1], adj.h, c, 1) = Tol2
  /\ \E c \in Handles \ {adj.h} : Offset2(all[1], adj.h, c, 1) = 2

\* distance_with_axis_preference from window s to window c of desktop d
\* for a query in direction dir, doubled
Dist2(d, s, c, dir) ==
  distance_with_axis_preference(d.windows[s].rect, AxisOf(dir) - 1, d.windows[c].rect)

Measured == op = "measure"
\* |A.center[axis] - B.center[axis]| for the measured windows, doubled
OnAxis2(a, b, axis) ==
  Abs(center2(all[1].windows[a].rect)[axis + 1] - center2(all[1].windows[b].rect)[axis + 1])
\* max(0, |A.center[off] - B.center[off]| - A.size[off] / 2), doubled,
\* written out afresh from the formula
Penalty2(a, b, axis) ==
  LET off == (axis + 1) % 2
      gap == Abs(center2(all[1].windows[a].rect)[off + 1]
                   - center2(all[1].windows[b].rect)[off + 1])
             - size(all[1].windows[a].rect)[off + 1]
  IN IF gap > 0 THEN gap ELSE 0

\* C14: for all rectangles A and B, degenerate ones included, and both
\* axes, distance_with_axis_preference(axis, A, B) is at least
\* |A.center[axis] - B.center[axis]|: the off-axis term is never negative.
C14_DistanceAtLeastOnAxis ==
  Measured => adj.dist >= OnAxis2(adj.a, adj.b, adj.axis)

\* a measurement from the empty or the inverted rectangle, with positive
\* on-axis and off-axis terms
C14_Witness ==
  /\ Measured
  /\ adj.a = 1 /\ adj.b # 1
  /\ size(all[1].windows[1].rect)[1] <= 0
  /\ adj.dist > OnAxis2(adj.a, adj.b, adj.axis)
  /\ OnAxis2(adj.a, adj.b, adj.axis) > 0

\* C15 as stated: the distance is the on-axis centre distance plus k times
\* max(0, off-axis centre distance minus half the source's off-axis size),
\* with the weight k = 10.
C15_DistanceWithWeightTen ==
  Measured =>
    adj.dist = OnAxis2(adj.a, adj.b, adj.axis) + 10 * Penalty2(adj.a, adj.b, adj.axis)

\* the hotkey being dispatched is bound to `swap window <dir>`
IsSwapWindow(m) == m \in {Text3("swap", "window", d) : d \in Directions}
\* the step is the dispatch of a swap, from the state the refresh left
SwapStep == pc = "invoke" /\ op' = "invoke" /\ IsSwapWindow(msg)

\* C16: swap of the focused window F with its adjacent window A: F is
\* asked to take A's bounds, then A to take F's old bounds; each window
\* whose call succeeded holds its new bounds, in the registry and on
\* screen, each window whose call failed keeps its old bounds, and the
\* swap reports success exactly when both calls succeeded.
C16_SwapExchangesBounds ==
  [][(SwapStep /\ adj'.called /\ adj'.res # NULL) =>
       LET g == adj'.g
           F == adj'.h
           A == adj'.res
           oldF == all[g].windows[F].rect
           oldA == all[g].windows[A].rect
       IN /\ F = fg
          /\ Len(calls') = 2
          /\ calls'[1][1] = "set_window_frame_bounds" /\ calls'[1][2] = F
          /\ calls'[2][1] = "set_window_frame_bounds" /\ calls'[2][2] = A
          /\ all'[g].windows[F].rect = IF calls'[1][3] THEN oldA ELSE oldF
          /\ all'[g].windows[A].rect = IF calls'[2][3] THEN oldF ELSE oldA
          /\ win'[F].rect = IF calls'[1][3] THEN oldA ELSE win[F].rect
          /\ win'[A].rect = IF calls'[2][3] THEN oldF ELSE win[A].rect
          /\ ret' = (calls'[1][3] /\ calls'[2][3])]_vars

\* a swap reported as failed: the focused window took its neighbour's
\* bounds, the neighbour's call failed and it kept its own
C16_Witness ==
  /\ op = "invoke" /\ IsSwapWindow(msg)
  /\ adj.called /\ adj.res # NULL
  /\ calls[1][3] /\ ~calls[2][3]
  /\ ret = FALSE
  /\ all[adj.g].windows[adj.h].rect = all[adj.g].windows[adj.res].rect
  /\ win[adj.res].rect = all[adj.g].windows[adj.res].rect

\* C17: a swap that finds an adjacent window sets the last_interacted_time
\* of the focused and of the adjacent window to the clock's reading,
\* whether or not the bounds-set calls succeed; a swap that finds none
\* makes no platform call and changes no window's time or bounds.
C17_SwapRefreshesTimes ==
  [][SwapStep =>
       IF adj'.called /\ adj'.res # NULL
       THEN /\ all'[adj'.g].windows[adj'.h].time = now
            /\ all'[adj'.g].windows[adj'.res].time = now
       ELSE all' = all /\ win' = win /\ calls' = <<>> /\ ret' = FALSE]_vars

\* a swap whose two bounds-set calls failed and whose participants both
\* carry the time of the swap
C17_Witness ==
  /\ op = "invoke" /\ IsSwapWindow(msg)
  /\ adj.called /\ adj.res # NULL
  /\ ~calls[1][3] /\ ~calls[2][3]
  /\ all[adj.g].windows[adj.h].time = now
  /\ all[adj.g].windows[adj.res].time = now
  /\ all[adj.g].windows[adj.h].rect # all[adj.g].windows[adj.res].rect

\* the step is a refresh run by the poll loop
RefreshStep == op' = "update_all"
\* window h is tracked before and after the step and carries the same time
KeepsTime(h) ==
  \A g1 \in DOMAIN all, g2 \in DOMAIN all' :
    (TrackedIn(all, g1, h) /\ TrackedIn(all', g2, h))
      => all'[g2].windows[h].time = all[g1].windows[h].time

\* C18 as stated: a refresh gives every window that stays tracked the
\* queried title and bounds and leaves the last_interacted_time of every
\* such window other than the OS-focused one unchanged, and a failed
\* focus call leaves its target's time unchanged.
C18_TimeChangesOnlyOnFocusOrSwap ==
  [][/\ RefreshStep =>
          \A h \in Handles :
            /\ (Tracked(all, h) /\ Tracked(all', h)) =>
                 \A g \in DOMAIN all' :
                   TrackedIn(all', g, h) =>
                     /\ all'[g].windows[h].name = QueriedTitle(h)
                     /\ all'[g].windows[h].rect = win[h].rect
            /\ h # fg => KeepsTime(h)
     /\ (pc = "invoke" /\ op' = "invoke") =>
          \A i \in 1..Len(calls') :
            (calls'[i][1] = "focus_window" /\ ~calls'[i][3])
              => KeepsTime(calls'[i][2])]_vars

\* ------------------------------------------- three windows in a row
\* One desktop with three windows of one size in a row, their centres at
\* x = 0, 100 and 200 and at the same y; the middle one has the focus.
\* Every assignment of the three handles to the three places and two
\* window sizes are tried; only the program acts.
ScenarioPlaces == {p \in [Handles -> {0, 100, 200}] : \A h1, h2 \in Handles : p[h1] = p[h2] => h1 = h2}
ScenarioHalfSizes == {10, 50}
ScenarioRect(x, half) == MkRect(x - half, 0 - half, x + half, half)
ScenarioTexts == {Text3("focus", "window", d) : d \in {"left", "right", "up"}}

ScenarioInit ==
  /\ \E p \in ScenarioPlaces, half \in ScenarioHalfSizes :
       /\ win = [h \in Handles |->
                   [exists |-> TRUE, desk |-> 1, title |-> <<"a", "b">>,
                    iconic |-> FALSE, visible |-> TRUE,
                    rect |-> ScenarioRect(p[h], half)]]
       /\ fg = CHOOSE h \in Handles : p[h] = 100
  /\ all = <<>>
  /\ current_id = NONE
  /\ pc = "sleep"
  /\ msg = <<>>
  /\ osCur = 1
  /\ now = 1
  /\ op = "idle"
  /\ pre = NoPre
  /\ calls = <<>>
  /\ ef = NoEf
  /\ adj = NoAdj
  /\ ret = FALSE
  /\ reads = {}
  /\ NoConfig

ScenarioNext ==
  \/ PeriodicUpdate
  \/ PeriodicSkip
  \/ \E text \in ScenarioTexts : PeekHotkey(text)
  \/ Invoke
  \/ PeekOther
  \/ PeekNone

ScenarioSpec == ScenarioInit /\ [][ScenarioNext]_vars

\* the window whose centre is at (x, 0)
WindowAt(x) == CHOOSE h \in Handles : center2(win[h].rect) = <<2 * x, 0>>
\* the registry tracks the three windows on the current desktop
ThreeTracked ==
  /\ current_id # NONE /\ current_id \in DOMAIN all
  /\ DOMAIN all[current_id].windows = Handles
\* the step dispatches `focus window <dir>` with the middle window focused
ScenarioStep(dir) ==
  /\ pc = "invoke" /\ op' = "invoke"
  /\ msg = Text3("focus", "window", dir)
  /\ ThreeTracked /\ fg = WindowAt(100)

\* C19: with three windows on one desktop at x-centres 0, 100 and 200
\* (same y) and the window at 100 focused, `focus window left` asks the
\* platform to focus the window at 0 and `focus window right` the window
\* at 200, and the asked window has the focus when the call succeeds;
\* `focus window up` finds no candidate and falls back to ensure_focus,
\* which makes no platform call and changes nothing.
C19_ThreeInARow ==
  [][/\ ScenarioStep("left") =>
          /\ adj'.called /\ adj'.h = WindowAt(100) /\ adj'.res = WindowAt(0)
          /\ calls'[1][1] = "focus_window" /\ calls'[1][2] = WindowAt(0)
          /\ calls'[1][3] => (fg' = WindowAt(0) /\ ret' /\ Len(calls') = 1)
     /\ ScenarioStep("right") =>
          /\ adj'.called /\ adj'.h = WindowAt(100) /\ adj'.res = WindowAt(200)
          /\ calls'[1][1] = "focus_window" /\ calls'[1][2] = WindowAt(200)
          /\ calls'[1][3] => (fg' = WindowAt(200) /\ ret' /\ Len(calls') = 1)
     /\ ScenarioStep("up") =>
          /\ adj'.called /\ adj'.h = WindowAt(100) /\ adj'.res = NULL
          /\ ef'.called /\ ef'.fg = WindowAt(100) /\ ef'.fg \in ef'.tracked
          /\ calls' = <<>> /\ ret' = FALSE
          /\ fg' = fg /\ all' = all /\ win' = win]_vars

\* `focus window up` has been dispatched with the middle window focused:
\* no candidate, ensure_focus ran, the focus is still on the middle window
C19_Witness ==
  /\ op = "invoke" /\ msg = Text3("focus", "window", "up")
  /\ ThreeTracked /\ fg = WindowAt(100)
  /\ \E h \in Handles : center2(win[h].rect) = <<0, 0>>
  /\ \E h \in Handles : center2(win[h].rect) = <<400, 0>>
  /\ adj.called /\ adj.res = NULL /\ ef.called /\ calls = <<>>

\* -------------------------------------------- focus after a dispatch
\* `focus window <dir>` has been dispatched
IsFocusWindow(m) == m \in {Text3("focus", "window", d) : d \in Directions}
\* every platform call of the dispatch succeeded
AllCallsSucceeded == \A i \in 1..Len(calls) : calls[i][3]
\* the resolver was asked and returned a window
AdjacentFound == adj.called /\ adj.res # NULL

\* C20: after a dispatch of `focus window <dir>` with the current desktop
\* determined and tracking at least one window, and every platform focus
\* call succeeding, the OS focus is on a tracked window: on the adjacent
\* window if the resolver found one; otherwise ensure_focus ran on the
\* current desktop and the focus is on the window it chose, or still on
\* the focused window when that one is tracked there.
C20_FocusLandsOnTrackedWindow ==
  (/\ op = "invoke" /\ IsFocusWindow(msg)
   /\ current_id # NONE /\ current_id \in DOMAIN all
   /\ DOMAIN all[current_id].windows # {}
   /\ AllCallsSucceeded) =>
    /\ fg # NULL /\ Tracked(all, fg)
    /\ IF AdjacentFound
       THEN fg = adj.res /\ calls = << <<"focus_window", adj.res, TRUE>> >>
       ELSE /\ ef.called /\ ef.g = current_id
            /\ IF ef.fg \in ef.tracked
               THEN fg = ef.fg /\ calls = <<>>
               ELSE /\ fg = ef.w /\ TrackedIn(all, current_id, fg)
                    /\ calls = << <<"focus_window", ef.w, TRUE>> >>

\* a dispatch that found no adjacent window while the focus was outside
\* the registry, and gave the focus to a window of the current desktop
C20_Witness ==
  /\ op = "invoke" /\ IsFocusWindow(msg)
  /\ current_id # NONE /\ current_id \in DOMAIN all
  /\ AllCallsSucceeded
  /\ ~AdjacentFound
  /\ ef.called /\ ef.fg \notin ef.tracked
  /\ fg = ef.w /\ TrackedIn(all, current_id, fg)

\* ------------------------------------------------ every kind of action
\* The poll loop with hotkeys bound to action texts of every kind, valid
\* and invalid, started on desktops that show any subset of the three
\* windows (none included), the first one minimized or not, with the
\* focus on a window of the desktop on screen or on none.  Only the
\* program acts.
Text1(a) == <<a>>
Text4(a, b, c, d) == <<a, SP, b, SP, c, SP, d>>

DispatchTexts ==
  {Text3(a, "desktop", d) : a \in {"focus", "swap", "move_to_desktop"}, d \in Directions}
    \cup {Text2(a, "window") : a \in {"focus", "swap", "move_to_desktop", "close", "terminate", "reload"}}
    \cup {Text1(a) : a \in {"focus", "close", "terminate", "reload"}}
    \cup {Text3(a, "window", "left") : a \in {"close", "terminate"}}
    \cup {Text4(a, "window", "left", "left") : a \in {"focus", "swap", "move_to_desktop"}}
    \cup {<<"focus", SP, SP, "window", SP, "left">>}
    \cup {Text3("move_to_desktop", "window", d) : d \in {"left", "right", "up"}}

DispatchInit ==
  /\ \E present \in SUBSET Handles, minimized \in SUBSET {1} :
       win = [h \in Handles |->
                [InitWin[h] EXCEPT !.exists = h \in present,
                                   !.iconic = h \in minimized]]
  /\ osCur \in Guids
  /\ fg \in {NULL} \cup {h \in Handles : win[h].exists /\ win[h].desk = osCur}
  /\ all = <<>>
  /\ current_id = NONE
  /\ pc = "sleep"
  /\ msg = <<>>
  /\ now = 1
  /\ op = "idle"
  /\ pre = NoPre
  /\ calls = <<>>
  /\ ef = NoEf
  /\ adj = NoAdj
  /\ ret = FALSE
  /\ reads = {}
  /\ NoConfig

DispatchNext ==
  \/ PeriodicUpdate
  \/ PeriodicSkip
  \/ \E text \in DispatchTexts : PeekHotkey(text)
  \/ Invoke
  \/ PeekOther
  \/ PeekNone

DispatchSpec == DispatchInit /\ [][DispatchNext]_vars

\* the step is invoke_action, run on the registry the refresh left
DispatchStep == pc = "invoke" /\ op' = "invoke"
\* the step leaves the registry and the platform as they were and makes
\* no platform call
NothingChanged ==
  /\ all' = all /\ current_id' = current_id
  /\ win' = win /\ fg' = fg /\ osCur' = osCur
  /\ calls' = <<>>
\* invoke_action was left by a runtime_error
Failed == pc = "exited"

IsSwapOrMoveDesktop(m) ==
  m \in {Text3(a, "desktop", d) : a \in {"swap", "move_to_desktop"}, d \in Directions}

\* C21: the dispatch of `swap desktop <dir>` and of `move_to_desktop
\* desktop <dir>` fails, for every direction and every registry, the
\* empty one included, and changes neither the registry nor any window's
\* bounds, focus or desktop.
C21_DesktopSwapAndMoveFail ==
  [][(DispatchStep /\ IsSwapOrMoveDesktop(msg)) => (Failed' /\ NothingChanged)]_vars

\* `move_to_desktop desktop up` has failed on an empty registry
C21_Witness ==
  /\ op = "invoke" /\ msg = Text3("move_to_desktop", "desktop", "up")
  /\ Failed
  /\ all = <<>> /\ calls = <<>>

\* the number of parts invoke_action's syntax gives an action
Arity(action_type) ==
  IF action_type \in {"focus", "swap", "move_to_desktop"} THEN 3
  ELSE IF action_type \in {"close", "terminate"} THEN 2
  ELSE 1
\* the text names an action and has the wrong number of parts for it
WrongArity(m) ==
  /\ to_action(split(m)[1]) # INVALID
  /\ Len(split(m)) # Arity(to_action(split(m)[1]))

\* C22 as stated: the dispatch of an action text with the wrong number of
\* tokens for its action fails and leaves the registry and the platform
\* unchanged.
C22_WrongArityFails ==
  [][(DispatchStep /\ WrongArity(msg)) => (Failed' /\ NothingChanged)]_vars

\* the enumerated manageable windows on the desktop the OS shows after
\* the step
OnScreenAfter ==
  {h \in Handles : Enumerated(h) /\ win[h].desk # NONE /\ Manageable(h)
                     /\ win[h].desk = osCur'}

SwitchTarget(dir) ==
  LET target == IF dir = "left" THEN osCur - 1 ELSE osCur + 1
  IN IF target \in Guids THEN target ELSE osCur

\* C24 as stated: `move_to_desktop window <dir>` moves the focused window
\* to the desktop reached by switching one step in <dir> and re-focuses
\* it there: after the dispatch the window is tracked in that desktop and
\* in no other, and holds the OS focus.
C24_MoveToAdjacentDesktop ==
  [][\A dir \in {"left", "right"} :
       (DispatchStep /\ msg = Text3("move_to_desktop", "window", dir)
          /\ Tracked(all, fg)) =>
         /\ TrackedIn(all', SwitchTarget(dir), fg)
         /\ \A g \in DOMAIN all' : TrackedIn(all', g, fg) => g = SwitchTarget(dir)
         /\ win'[fg].desk = SwitchTarget(dir)
         /\ fg' = fg]_vars

\* ------------------------------------------------------------ the tick
\* the registry is what a refresh answered by the present OS state leaves:
\* exactly the manageable windows, each under its desktop with its queried
\* title and bounds, no deletion mark set and no desktop empty
RegistryFresh ==
  /\ \A g \in Guids, h \in Handles :
       /\ TrackedIn(all, g, h) <=>
            (Enumerated(h) /\ win[h].desk = g /\ Manageable(h))
       /\ TrackedIn(all, g, h) =>
            /\ all[g].windows[h].name = QueriedTitle(h)
            /\ all[g].windows[h].rect = win[h].rect
            /\ ~all[g].windows[h].marked
  /\ \A g \in DOMAIN all : DOMAIN all[g].windows # {}

\* C25: every dispatch of a hotkey action directly follows, in the same
\* tick, a refresh that has run to completion: the step before the
\* dispatch is that trigger's own update, and the registry the dispatch
\* starts from is the one that update left of the OS state of that moment.
C25_DispatchFollowsRefresh ==
  [][op' = "invoke" => (pc = "invoke" /\ op = "update_all" /\ RegistryFresh)]_vars

\* a dispatch has run on the registry its own refresh left and has given
\* the focus to the adjacent window that registry held
C25_Witness ==
  /\ op = "invoke" /\ IsFocusWindow(msg)
  /\ AdjacentFound
  /\ calls = << <<"focus_window", adj.res, TRUE>> >>
  /\ all[adj.g].windows[adj.h].time = now
  /\ fg = adj.res

\* the platform request Window::close and Window::terminate make
RequestOf(action_type) ==
  IF action_type = "close" THEN "close_window" ELSE "terminate_process"

\* C26: `close window` and `terminate window` send exactly one close
\* (respectively terminate) request, to the OS-focused window, when the
\* registry tracks it, and none when it does not; the registry is left
\* unchanged, so the window stays tracked until a refresh finds it gone.
C26_CloseAndTerminate ==
  [][\A a \in {"close", "terminate"} :
       (DispatchStep /\ msg = Text2(a, "window")) =>
         /\ ~Failed'
         /\ all' = all /\ current_id' = current_id
         /\ win' = win /\ fg' = fg /\ osCur' = osCur
         /\ IF Tracked(all, fg)
            THEN /\ Len(calls') = 1
                 /\ calls'[1][1] = RequestOf(a) /\ calls'[1][2] = fg
            ELSE calls' = <<>>]_vars

\* `terminate window` has sent its one request to the focused window,
\* which is still tracked
C26_Witness ==
  /\ op = "invoke" /\ msg = Text2("terminate", "window")
  /\ calls = << <<"terminate_process", fg, TRUE>> >>
  /\ Tracked(all, fg)

\* no window of the registry carries the deletion mark: no refresh is
\* between its mark phase and its sweep phase
NoRefreshUnderWay ==
  \A g \in DOMAIN all : \A h \in DOMAIN all[g].windows : ~all[g].windows[h].marked

\* C29: no lookup in the registry happens while a refresh is between its
\* mark phase and its sweep phase: the refresh itself makes no lookup
\* (reads is empty), no step leaves a marked window behind, and
\* invoke_action, which makes the other lookups, starts on the registry a
\* completed refresh left.
C29_NoLookupDuringRefresh ==
  /\ reads = {}
  /\ NoRefreshUnderWay
  /\ pc = "invoke" => (op = "update_all" /\ RegistryFresh)

\* ------------------------------------------------- reload and the hotkeys
\* main() from its start: the first reload, then the loop.  The user edits,
\* creates and removes configuration files and sets TWM_CONFIG_PATH and
\* APPDATA; the hotkeys that arrive are the `reload` bindings of the table
\* in force.
PlaceFiles(path) ==
  IF path = "cwd" THEN {Missing, "plain", "clash"}
  ELSE IF path = "env" THEN {Unset, Missing, "other", "number"}
  ELSE {Unset, Missing, "settings", "unknown", "plain"}

ConfigInit ==
  /\ all = <<>>
  /\ current_id = NONE
  /\ pc = "start"
  /\ msg = <<>>
  /\ win = InitWin
  /\ fg = 1
  /\ osCur = 1
  /\ now = 1
  /\ op = "idle"
  /\ pre = NoPre
  /\ calls = <<>>
  /\ ef = NoEf
  /\ adj = NoAdj
  /\ ret = FALSE
  /\ reads = {}
  /\ NoConfig

\* main(): reload() before the loop; a runtime_error ends main
Startup ==
  /\ pc = "start"
  /\ LET s == reload(State(<<>>, AscendingOrder, NULL, now))
     IN /\ Commit(s)
        /\ pc' = IF s.threw THEN "exited" ELSE "sleep"
  /\ op' = "reload"
  /\ UNCHANGED <<msg, now, queue>>

\* the user puts file f at a place, removes the file there, or sets or
\* unsets the environment variable
EditFile(path, f) ==
  /\ pc \in {"start", "sleep", "peek"}
  /\ files[path] # f
  /\ files' = [files EXCEPT ![path] = f]
  /\ op' = "idle"
  /\ Forget
  /\ UNCHANGED <<all, current_id, pc, msg, win, fg, osCur, now, hotkeys,
                 registered, loaded, queue>>

ReloadBindings ==
  {i \in DOMAIN hotkeys : to_action(split(hotkeys[i].action)[1]) = "reload"}

ConfigNext ==
  \/ Startup
  \/ \E path \in {"cwd", "env", "appdata"} : \E f \in PlaceFiles(path) : EditFile(path, f)
  \/ PeriodicUpdate
  \/ PeriodicSkip
  \/ \E i \in ReloadBindings : PeekHotkey(hotkeys[i].action)
  \/ Invoke
  \/ PeekOther
  \/ PeekNone

ConfigSpec == ConfigInit /\ [][ConfigNext]_vars

\* a step in which reload() runs: main's first, or the dispatch of a
\* `reload` action
ReloadStep ==
  \/ pc = "start" /\ op' = "reload"
  \/ pc = "invoke" /\ op' = "invoke" /\ to_action(split(msg)[1]) = "reload"

\* after a reload step: the configuration it read
LoadedConfig == IF loaded = "default" THEN DefaultConfig ELSE Contents(files[loaded])

\* the bindings of a table, as pairs of key combination and action text
Bindings(table) == {<<table[i].keycombo, table[i].action>> : i \in DOMAIN table}
AllEntries(entries) == {<<entries[i].key, entries[i].value>> : i \in DOMAIN entries}
StringEntries(entries) ==
  {<<entries[i].key, entries[i].value>> : i \in {j \in DOMAIN entries : entries[j].is_string}}

\* the OS holds one registration for every binding of the table, under the
\* binding's id, and no other
RegisteredExactly(table, reg) ==
  /\ \A i \in DOMAIN table : table[i].id = i - 1
  /\ reg = {[id |-> table[i].id,
             mod |-> parse_keycombo(table[i].keycombo, {}, NoKeycode).mod,
             keycode |-> parse_keycombo(table[i].keycombo, {}, NoKeycode).keycode]
              : i \in DOMAIN table}

\* C27 as stated: after a reload that loads a configuration with a hotkeys
\* table, the bindings in force and registered are exactly the entries of
\* that table
C27_ExactlyTheTable ==
  [][(ReloadStep /\ LoadedConfig'.has_hotkeys)
       => /\ Bindings(hotkeys') = AllEntries(LoadedConfig'.hotkeys)
          /\ RegisteredExactly(hotkeys', registered')]_vars

\* C27: after a reload that loads a configuration with a hotkeys table, the
\* OS holds registrations for the bindings of the table in force and for
\* nothing else, so none of the old ones remains; when the reload returns
\* without error the bindings are exactly the table's entries with a string
\* value, and when registering an entry fails they are those among the
\* entries before the failing one
C27_ReloadReplacesBindings ==
  [][(ReloadStep /\ LoadedConfig'.has_hotkeys)
       => LET entries == LoadedConfig'.hotkeys
          IN /\ RegisteredExactly(hotkeys', registered')
             /\ pc' # "exited" => Bindings(hotkeys') = StringEntries(entries)
             /\ pc' = "exited" =>
                  \E n \in 1..Len(entries) :
                    /\ entries[n].is_string
                    /\ Bindings(hotkeys') = StringEntries(SubSeq(entries, 1, n - 1))]_vars

\* a dispatched reload has replaced a table by the two bindings of the file
\* TWM_CONFIG_PATH names
C27_Witness ==
  /\ op = "invoke" /\ msg = <<"reload">> /\ pc = "peek"
  /\ loaded = "env" /\ files.env = "other"
  /\ Len(hotkeys) = 2 /\ hotkeys[1].keycombo = <<"ctrl", "q">>
  /\ Cardinality(registered) = 2

\* the source the documented priority gives: the working directory's
\* twm.toml, then TWM_CONFIG_PATH, then %APPDATA%, then the default
SourceByPriority ==
  IF files.cwd \in ConfigFiles THEN "cwd"
  ELSE IF files.env \in ConfigFiles THEN "env"
  ELSE IF files.appdata \in ConfigFiles THEN "appdata"
  ELSE "default"

MaxQueue == 2
WM_HOTKEY == "WM_HOTKEY"
HotkeyMessage(id) == [message |-> WM_HOTKEY, wParam |-> id]
OtherMessage == [message |-> "WM_TIMER", wParam |-> 0]

QueueInit ==
  /\ all = <<>>
  /\ current_id = NONE
  /\ pc = "start"
  /\ msg = <<>>
  /\ win = InitWin
  /\ fg = 1
  /\ osCur = 1
  /\ now = 1
  /\ op = "idle"
  /\ pre = NoPre
  /\ calls = <<>>
  /\ ef = NoEf
  /\ adj = NoAdj
  /\ ret = FALSE
  /\ reads = {}
  /\ hotkeys = <<>>
  /\ registered = {}
  /\ files = [cwd |-> "keys", env |-> Unset, appdata |-> Unset]
  /\ loaded = "none"
  /\ queue = <<>>

\* the OS appends a message to the queue, at any time
Post(m) ==
  /\ pc # "exited"
  /\ Len(queue) < MaxQueue
  /\ queue' = Append(queue, m)
  /\ UNCHANGED <<all, current_id, pc, msg, win, fg, osCur, now, op, pre,
                 calls, ef, adj, ret, cfgvars, reads>>

\* tick(): PeekMessage removes a WM_HOTKEY message; Desktop::update_all()
\* runs, then invoke_action on the action of its id (step Invoke).  An id
\* outside the table throws.
TickHotkey ==
  /\ pc = "peek"
  /\ queue # <<>>
  /\ Head(queue).message = WM_HOTKEY
  /\ now < MaxClock
  /\ now' = now + 1
  /\ Commit(update_all(State(<<>>, AscendingOrder, NULL, now + 1)))
  /\ LET a == action_of(hotkeys, Head(queue).wParam)
     IN IF a.found THEN msg' = a.action /\ pc' = "invoke"
        ELSE msg' = msg /\ pc' = "exited"
  /\ op' = "update_all"
  /\ queue' = Tail(queue)

\* tick(): PeekMessage removes a message that is not WM_HOTKEY: it is logged
TickOther ==
  /\ pc = "peek"
  /\ queue # <<>>
  /\ Head(queue).message # WM_HOTKEY
  /\ queue' = Tail(queue)
  /\ op' = "other"
  /\ Forget
  /\ UNCHANGED <<all, current_id, pc, msg, win, fg, osCur, now, cfgvars>>

\* tick(): PeekMessage finds the queue empty: tick() returns and main sleeps
TickNone ==
  /\ pc = "peek"
  /\ queue = <<>>
  /\ pc' = "sleep"
  /\ op' = "idle"
  /\ Forget
  /\ UNCHANGED <<all, current_id, msg, win, fg, osCur, now, cfgvars, queue>>

QueueNext ==
  \/ Startup
  \/ \E r \in registered : Post(HotkeyMessage(r.id))
  \/ Post(OtherMessage)
  \/ PeriodicUpdate
  \/ PeriodicSkip
  \/ TickHotkey
  \/ Invoke
  \/ TickOther
  \/ TickNone

QueueSpec == QueueInit /\ [][QueueNext]_vars

\* a step of tick() that takes a message from the queue
Taken == Len(queue') < Len(queue)
\* a step that ends a tick: it returns, or an exception leaves it
TickEnds == pc \in {"peek", "invoke"} /\ pc' \in {"sleep", "exited"}

\* C30: one tick handles every pending notification in arrival order: a
\* message leaves the queue only at its head and in tick(), a hotkey
\* trigger with its own refresh and followed by its dispatch, any other
\* message without dispatch or change of the registry; and a tick ends only
\* when no message is pending
C30_TickHandlesAllPending ==
  [][/\ Taken =>
          /\ pc = "peek"
          /\ queue' = Tail(queue)
          /\ Head(queue).message = WM_HOTKEY => (op' = "update_all" /\ pc' = "invoke")
          /\ Head(queue).message # WM_HOTKEY => (op' = "other" /\ all' = all)
     /\ TickEnds => queue' = <<>>]_vars

\* ------------------------------------------ the resolver and scan order
\* C31: for a fixed desktop, source and direction the query returns the
\* same window whatever order m_windows is iterated in
C31_ScanOrderIndependent ==
  op = "query" =>
    \A order \in ScanOrders :
      get_adjacent_window(all[1], adj.h, adj.dir, order) = adj.res

\* ------------------------------------- the resolver among three candidates
\* Desktop::get_adjacent_window on a desktop of four windows: the source,
\* window 1, and three windows to its right whose left edge is 10 to
\* 10 + MaxGap units away and which are 10 or 11 units wide, so that their
\* distances from the source come in steps of half a unit.  Window 2 was
\* never interacted with, window 3 at time 1, window 4 at time 2.
MaxGap == 3
RowHandles == 1..4
RowCandidates ==
  {MkRect(x, 0, x + w, 10) : x \in 10..(10 + MaxGap), w \in {10, 11}}
RowOrders ==
  {o \in [RowHandles -> RowHandles] : \A i, j \in RowHandles : o[i] = o[j] => i = j}

RowInit ==
  /\ \E r2 \in RowCandidates, r3 \in RowCandidates, r4 \in RowCandidates :
       all = 1 :> [windows |-> <<GeoWindow(MkRect(0, 0, 10, 10), Epoch), GeoWindow(r2, Epoch),
                                 GeoWindow(r3, 1), GeoWindow(r4, 2)>>,
                   last_focus |-> 1]
  /\ win = InitWin
  /\ current_id = 1
  /\ pc = "peek"
  /\ msg = <<>>
  /\ fg = 1
  /\ osCur = 1
  /\ now = 1
  /\ op = "idle"
  /\ pre = NoPre
  /\ calls = <<>>
  /\ ef = NoEf
  /\ adj = NoAdj
  /\ ret = FALSE
  /\ reads = {}
  /\ NoConfig

RowNext ==
  \E dir \in {"left", "right"}, order \in RowOrders : QueryAdjacent(1, dir, order)

RowSpec == RowInit /\ [][RowNext]_vars

\* C32: a window the query returns is no farther from the source than the
\* nearest eligible candidate by more than the tolerance
C32_WithinToleranceOfNearest ==
  (op = "query" /\ adj.res # NULL) =>
    \A c \in SideOf(all[1], adj.h, adj.dir) :
      Dist2(all[1], adj.h, adj.res, adj.dir) <= Dist2(all[1], adj.h, c, adj.dir) + Tol2

\* ------------------------------------------------ registry consistency
\* the desktops of the registry that track window h
DesktopsOf(h) == {g \in DOMAIN all : h \in DOMAIN all[g].windows}

\* C33: after every completed operation each window handle is tracked in
\* at most one desktop, so Desktop::get(handle) and Window::focused() have
\* one answer
C33_TrackedInOneDesktop ==
  \A h \in Handles : Cardinality(DesktopsOf(h)) <= 1

\* a dispatch has moved the focused window: the registry tracked it under
\* the desktop it came from when the dispatch began and tracks it under the
\* destination now
C33_Witness ==
  /\ op = "invoke"
  /\ \E i \in DOMAIN calls : calls[i][1] = "move_window_to_desktop" /\ calls[i][3]
  /\ \E h \in Handles, g \in Guids :
       /\ DesktopsOf(h) = {g}
       /\ win[h].desk = g
       /\ \E i \in DOMAIN calls : calls[i][1] = "move_window_to_desktop" /\ calls[i][2] = h

\* C34: whenever current_id has a value it is the key of a desktop of the
\* registry that tracks at least one window, after a refresh and after the
\* focus, swap and move_to_desktop actions that follow it
C34_CurrentDesktopPresent ==
  current_id # NONE =>
    /\ current_id \in DOMAIN all
    /\ DOMAIN all[current_id].windows # {}

\* a refresh dropped the desktop that was current before it and left
\* current_id at a desktop the registry holds
C34_Witness ==
  /\ op = "update_all"
  /\ \E g \in DOMAIN pre : g \notin DOMAIN all
  /\ current_id # NONE /\ current_id \in DOMAIN all
\* C35: between the steps of the loop no tracked window has
\* marked_for_deletion set: a completed refresh leaves none marked (it
\* clears the mark of every window it meets again and erases the others),
\* and no action between refreshes sets the mark.
C35_NoMarkOutsideRefresh ==
  \A g \in DOMAIN all : \A h \in DOMAIN all[g].windows :
    all[g].windows[h].marked = FALSE

\* a refresh has marked every window, met one of them again (its update
\* cleared the mark) and swept another that was gone
C35_Witness ==
  /\ AfterRefresh /\ reads # {}
  /\ \E g \in DOMAIN pre : \E h \in DOMAIN pre[g].windows :
       TrackedIn(all, g, h) /\ h \in reads
  /\ \E g \in DOMAIN pre : \E h \in DOMAIN pre[g].windows : ~Tracked(all, h)

\* the last_interacted_time the registry holds for tracked window h
TimeOf(h) ==
  LET g == CHOOSE x \in DOMAIN all : TrackedIn(all, x, h)
  IN all[g].windows[h].time

\* C36: after every completed refresh during which the OS-focused window
\* is manageable (it belongs to a virtual desktop, has a title, and is
\* visible and not minimized), that window is tracked and its
\* last_interacted_time is greater than or equal to that of every other
\* tracked window.
C36_FocusedIsMostRecent ==
  (/\ AfterRefresh /\ fg # NULL /\ Enumerated(fg)
   /\ win[fg].desk # NONE /\ Manageable(fg)) =>
    /\ Tracked(all, fg)
    /\ \A h \in Handles : Tracked(all, h) => TimeOf(fg) >= TimeOf(h)

\* a refresh has found the focus on a window other than the one the
\* program interacted with last: before the refresh another window held a
\* later time than the focused one
C36_Witness ==
  /\ AfterRefresh /\ fg # NULL /\ Tracked(all, fg) /\ Tracked(pre, fg)
  /\ \E g \in DOMAIN pre : \E h \in DOMAIN pre[g].windows :
       /\ h # fg /\ Tracked(all, h)
       /\ \E gf \in DOMAIN pre : /\ TrackedIn(pre, gf, fg)
                                 /\ pre[g].windows[h].time > pre[gf].windows[fg].time

====
